---- MODULE Spec2Model ----
(***************************************************************************)
(* Model of the reconciliation core of provider-sonarqube: the QualityGate *)
(* and QualityGateCondition external clients (Observe / Create / Update /  *)
(* Delete), the comparators, late initializers and observation mappers     *)
(* they call, and the remote Quality Gates API client as the source of     *)
(* each call's result.                                                     *)
(*                                                                         *)
(* A Go pointer (to bool, to string) is a sequence: <<>> is nil, <<v>>     *)
(* points to v.                                                            *)
(* A Go error is a sequence of messages: <<>> is nil, errors.New(m)        *)
(* is <<m>>, errors.Wrap(e, label) puts the label in front of e.           *)
(* A Go slice is a record [isNil, elems], so that nil and empty differ.    *)
(***************************************************************************)
EXTENDS Integers, Sequences, FiniteSets, TLC

VARIABLES
    crs,    \* the managed resources, by handle: what the reconcilers are handed
    last,   \* the last operation run: its resource, remote calls, result, error
    eval,   \* a call of a function of the client package: arguments and result
    ctx,    \* the context.Context the operations are handed: live or cancelled
    remote, \* the quality gates the remote holds, where the remote is kept track of
    todo    \* the next step of each resource's reconcile, where cycles are run

vars == <<crs, last, eval, ctx, remote, todo>>

----------------------------------------------------------------------------
(* Bounds and value universes.                                             *)

MaxConds == 1   \* longest condition list a Show result carries

Names      == {"a", "b"}          \* quality gate display names
GateIds    == {"id1"}             \* ids the remote generates for gates
CondIds    == {"c1", "c2"}        \* ids the remote generates for conditions
Metrics    == {"coverage", "bugs"}
Errors     == {"80", "85"}
Ops        == {"LT", "GT"}
MetaNames  == {"a"}               \* metadata.name of a managed resource

\* What the remote holds: a sub-universe of the desired values, so that a
\* desired value can both match and differ from the observed one.
RemoteMetrics == {"coverage"}
RemoteErrors  == {"80"}
RemoteOps     == {"LT", "GT"}

Nil      == <<>>
Ptr(v)   == <<v>>
IsNil(p) == p = <<>>
Deref(p) == p[1]
Optional(S) == {Nil} \cup {Ptr(v) : v \in S}

NoErr       == <<>>
New(msg)    == <<msg>>
Wrap(err, label) == IF err = NoErr THEN NoErr ELSE <<label>> \o err

NilSlice     == [isNil |-> TRUE, elems |-> <<>>]
MkSlice(seq) == [isNil |-> FALSE, elems |-> seq]

SeqUpTo(S, n) == UNION {[1..m -> S] : m \in 0..n}

----------------------------------------------------------------------------
(* Error labels of the two controllers.                                    *)

errNotQualityGate     == "managed resource is not a QualityGate custom resource"
errCreateQualityGate  == "cannot create SonarQube Quality Gate"
errDefaultQualityGate == "cannot set SonarQube Quality Gate as default"
errUpdateQualityGate  == "cannot update SonarQube Quality Gate"
errDeleteQualityGate  == "cannot delete SonarQube Quality Gate"
errShowQualityGate    == "cannot get SonarQube Quality Gate"

errNotQualityGateCondition    == "managed resource is not a QualityGateCondition custom resource"
errCreateQualityGateCondition == "cannot create SonarQube Quality Gate Condition"
errUpdateQualityGateCondition == "cannot update SonarQube Quality Gate Condition"
errDeleteQualityGateCondition == "cannot delete SonarQube Quality Gate Condition"
errShowQualityGateCondition   == "cannot get SonarQube Quality Gate Condition"

errConditionNotFound == "quality gate condition not found in observation"

----------------------------------------------------------------------------
(* Results of the remote API client.  The client is an external            *)
(* collaborator: every call either fails with a transport / API error or   *)
(* returns an object of the call's result type.                            *)

ApiErrors == {New("api error"), New("not found")}

\* sonargo.QualitygatesShowObject_sub2
ShowConditions == [ID : CondIds, Metric : RemoteMetrics, Error : RemoteErrors, Op : RemoteOps]

ShowConditionSlices == {NilSlice} \cup {MkSlice(s) : s \in SeqUpTo(ShowConditions, MaxConds)}

\* sonargo.QualitygatesShowObject_sub1
NoActions ==
    [AssociateProjects |-> FALSE, Copy |-> FALSE, Delegate |-> FALSE, Delete |-> FALSE,
     ManageAiCodeAssurance |-> FALSE, ManageConditions |-> FALSE, Rename |-> FALSE,
     SetAsDefault |-> FALSE]

\* sonargo.QualitygatesShowObject
ShowObjects ==
    [Name : Names, IsDefault : BOOLEAN, IsBuiltIn : {FALSE}, IsAiCodeSupported : {FALSE},
     CaycStatus : {"compliant"}, Actions : {NoActions}, Conditions : ShowConditionSlices]

ZeroShowObject ==
    [Name |-> "", IsDefault |-> FALSE, IsBuiltIn |-> FALSE, IsAiCodeSupported |-> FALSE,
     CaycStatus |-> "", Actions |-> NoActions, Conditions |-> NilSlice]

Failures(zero) == {[err |-> e, v |-> zero] : e \in ApiErrors}
Successes(S)   == {[err |-> NoErr, v |-> x] : x \in S}

ShowResults == Failures(ZeroShowObject) \cup Successes(ShowObjects)

\* sonargo.QualitygatesCreateObject: the remote generates the id and stores the
\* gate under the name it was asked to create
CreateResults(opt) ==
    Failures([ID |-> "", Name |-> ""]) \cup Successes([ID : GateIds, Name : {opt.Name}])

\* sonargo.QualitygatesCreateConditionObject
CreateConditionResults ==
    Failures([ID |-> ""]) \cup Successes([ID : CondIds])

\* calls that return only a response and an error
PlainResults == Failures("") \cup Successes({""})

\* the remote operations an external client may issue
RemoteOperations ==
    {"Show", "Create", "Rename", "SetAsDefault", "Destroy",
     "CreateCondition", "UpdateCondition", "DeleteCondition"}

----------------------------------------------------------------------------
(* The managed resources.                                                  *)

\* v1alpha1.QualityGateParameters
QualityGateParameters == [Name : Names, Default : Optional(BOOLEAN)]

\* v1alpha1.QualityGateObservation of a resource never observed
ZeroQualityGateObservation ==
    [Actions |-> NoActions, CaycStatus |-> "", Conditions |-> NilSlice,
     IsAiCodeSupported |-> FALSE, IsBuiltIn |-> FALSE, IsDefault |-> FALSE, Name |-> ""]

\* v1alpha1.QualityGateConditionParameters
QualityGateConditionParameters ==
    [QualityGateName : Optional(Names), QualityGateRef : {Nil}, QualityGateSelector : {Nil},
     Error : Errors, Metric : Metrics, Op : Optional(Ops)]

\* v1alpha1.QualityGateConditionObservation of a resource never observed
ZeroQualityGateConditionObservation == [Error |-> "", ID |-> "", Metric |-> "", Op |-> ""]

\* managed.ExternalObservation{}
ZeroObservation ==
    [ResourceExists |-> FALSE, ResourceUpToDate |-> FALSE, ResourceLateInitialized |-> FALSE]

\* v1alpha1.QualityGate as stored: the external-name annotation may have been
\* set by the user to adopt an existing gate
QualityGates ==
    [kind : {"QualityGate"}, name : MetaNames, spec : QualityGateParameters,
     externalName : {""} \cup Names \cup GateIds,
     atProvider : {ZeroQualityGateObservation}, ready : {""}]

\* v1alpha1.QualityGateCondition as stored
QualityGateConditions ==
    [kind : {"QualityGateCondition"}, name : MetaNames, spec : QualityGateConditionParameters,
     externalName : {""} \cup CondIds,
     atProvider : {ZeroQualityGateConditionObservation}, ready : {""}]

----------------------------------------------------------------------------
(* internal/helpers: the two generic pointer helpers the comparators and   *)
(* late initializers call.                                                 *)

\* true when the pointer is nil (field unset) or points to a value equal to val
IsComparablePtrEqualComparable(ptr, val) == IsNil(ptr) \/ Deref(ptr) = val

\* the pointer after AssignIfNil(&ptr, val): set to val only when it was nil
AssignIfNil(ptr, val) == IF IsNil(ptr) THEN Ptr(val) ELSE ptr

----------------------------------------------------------------------------
(* internal/clients/instance: observation mappers, payload generators,     *)
(* comparators and late initializers.                                      *)

GenerateQualityGateConditionObservation(condition) ==
    [Error |-> condition.Error, ID |-> condition.ID,
     Metric |-> condition.Metric, Op |-> condition.Op]

\* GenerateQualityGateConditionsObservation that builds its result by appending
\* to a nil slice, which stays nil when there is nothing to append
GenerateQualityGateConditionsObservation_NilWhenEmpty(conditions) ==
    IF Len(conditions.elems) = 0 THEN NilSlice
    ELSE MkSlice([i \in 1..Len(conditions.elems) |->
                    GenerateQualityGateConditionObservation(conditions.elems[i])])

\* make([]T, len(conditions)) is never nil, also for a nil input
GenerateQualityGateConditionsObservation(conditions) ==
    MkSlice([i \in 1..Len(conditions.elems) |->
                GenerateQualityGateConditionObservation(conditions.elems[i])])

\* FindQualityGateConditionObservation that keeps searching after a match and
\* so returns the last condition whose ID is id
FindQualityGateConditionObservation_LastMatch(id, condition) ==
    LET hits == {i \in 1..Len(condition.elems) : condition.elems[i].ID = id} IN
    IF hits = {}
    THEN [err |-> New(errConditionNotFound), v |-> ZeroQualityGateConditionObservation]
    ELSE LET final == CHOOSE i \in hits : \A j \in hits : i >= j IN
         [err |-> NoErr, v |-> GenerateQualityGateConditionObservation(condition.elems[final])]

\* [err, v]: the mapping of the first condition whose ID is id
FindQualityGateConditionObservation(id, condition) ==
    LET hits == {i \in 1..Len(condition.elems) : condition.elems[i].ID = id} IN
    IF hits = {}
    THEN [err |-> New(errConditionNotFound), v |-> ZeroQualityGateConditionObservation]
    ELSE LET first == CHOOSE i \in hits : \A j \in hits : i <= j IN
         [err |-> NoErr, v |-> GenerateQualityGateConditionObservation(condition.elems[first])]

\* GenerateCreateQualityGateConditionOption that fills an unset operator with
\* a default instead of leaving it out
GenerateCreateQualityGateConditionOption_OpDefaulted(params) ==
    [GateName |-> Deref(params.QualityGateName), Error |-> params.Error,
     Metric |-> params.Metric, Op |-> IF IsNil(params.Op) THEN "GT" ELSE Deref(params.Op)]

GenerateCreateQualityGateConditionOption(params) ==
    [GateName |-> Deref(params.QualityGateName), Error |-> params.Error,
     Metric |-> params.Metric, Op |-> IF IsNil(params.Op) THEN "" ELSE Deref(params.Op)]

\* GenerateUpdateQualityGateConditionOption that forgets the operator
GenerateUpdateQualityGateConditionOption_OpDropped(id, params) ==
    [Id |-> id, Error |-> params.Error, Metric |-> params.Metric, Op |-> ""]

GenerateUpdateQualityGateConditionOption(id, params) ==
    [Id |-> id, Error |-> params.Error, Metric |-> params.Metric,
     Op |-> IF IsNil(params.Op) THEN "" ELSE Deref(params.Op)]

GenerateDeleteQualityGateConditionOption(id) == [Id |-> id]

\* IsQualityGateConditionUpToDate that forgets to compare the metric
IsQualityGateConditionUpToDate_MetricIgnored(params, observation) ==
    IF IsNil(params) THEN TRUE
    ELSE IF IsNil(observation) THEN FALSE
    ELSE IF Deref(params).Error # Deref(observation).Error THEN FALSE
    ELSE IF ~IsComparablePtrEqualComparable(Deref(params).Op, Deref(observation).Op) THEN FALSE
    ELSE TRUE

\* params and observation are pointers to the specification and the observation
IsQualityGateConditionUpToDate(params, observation) ==
    IF IsNil(params) THEN TRUE
    ELSE IF IsNil(observation) THEN FALSE
    ELSE IF Deref(params).Error # Deref(observation).Error THEN FALSE
    ELSE IF Deref(params).Metric # Deref(observation).Metric THEN FALSE
    ELSE IF ~IsComparablePtrEqualComparable(Deref(params).Op, Deref(observation).Op) THEN FALSE
    ELSE TRUE

\* the pointer params after the call (the specification is changed in place)
LateInitializeQualityGateCondition(params, observation) ==
    IF IsNil(params) \/ IsNil(observation) THEN params
    ELSE Ptr([Deref(params) EXCEPT !.Op = AssignIfNil(@, Deref(observation).Op)])

GenerateQualityGateCreateOptions(spec) == [Name |-> spec.Name]

GenerateQualityGateActionsObservation(actions) ==
    [AssociateProjects |-> actions.AssociateProjects, Copy |-> actions.Copy,
     Delegate |-> actions.Delegate, Delete |-> actions.Delete,
     ManageAiCodeAssurance |-> actions.ManageAiCodeAssurance,
     ManageConditions |-> actions.ManageConditions, Rename |-> actions.Rename,
     SetAsDefault |-> actions.SetAsDefault]

GenerateQualityGateObservation(observation) ==
    [Actions |-> GenerateQualityGateActionsObservation(observation.Actions),
     CaycStatus |-> observation.CaycStatus,
     Conditions |-> GenerateQualityGateConditionsObservation(observation.Conditions),
     IsAiCodeSupported |-> observation.IsAiCodeSupported,
     IsBuiltIn |-> observation.IsBuiltIn,
     IsDefault |-> observation.IsDefault,
     Name |-> observation.Name]

\* IsQualityGateUpToDate that compares an unset Default as if it were false
IsQualityGateUpToDate_UnsetDefaultIsFalse(spec, observation) ==
    IF IsNil(spec) THEN TRUE
    ELSE IF IsNil(observation) THEN FALSE
    ELSE IF Deref(spec).Name # Deref(observation).Name THEN FALSE
    ELSE IF IsNil(Deref(spec).Default) THEN ~Deref(observation).IsDefault
    ELSE IF ~IsComparablePtrEqualComparable(Deref(spec).Default, Deref(observation).IsDefault)
         THEN FALSE
    ELSE TRUE

\* IsQualityGateUpToDate that compares the names only
IsQualityGateUpToDate_NameOnly(spec, observation) ==
    IF IsNil(spec) THEN TRUE
    ELSE IF IsNil(observation) THEN FALSE
    ELSE IF Deref(spec).Name # Deref(observation).Name THEN FALSE
    ELSE TRUE

\* spec and observation are pointers to the specification and the observation
IsQualityGateUpToDate(spec, observation) ==
    IF IsNil(spec) THEN TRUE
    ELSE IF IsNil(observation) THEN FALSE
    ELSE IF Deref(spec).Name # Deref(observation).Name THEN FALSE
    ELSE IF ~IsComparablePtrEqualComparable(Deref(spec).Default, Deref(observation).IsDefault)
         THEN FALSE
    ELSE TRUE

\* LateInitializeQualityGate that assigns the observed value whether or not
\* Default is set
LateInitializeQualityGate_Overwrites(spec, observation) ==
    IF IsNil(spec) \/ IsNil(observation) THEN spec
    ELSE Ptr([Deref(spec) EXCEPT !.Default = Ptr(Deref(observation).IsDefault)])

\* LateInitializeQualityGate that unsets a Default that differs from the
\* observed value, to have it filled by the next call
LateInitializeQualityGate_ResetsOnDrift(spec, observation) ==
    IF IsNil(spec) \/ IsNil(observation) THEN spec
    ELSE IF ~IsNil(Deref(spec).Default) /\ Deref(Deref(spec).Default) # Deref(observation).IsDefault
    THEN Ptr([Deref(spec) EXCEPT !.Default = Nil])
    ELSE Ptr([Deref(spec) EXCEPT !.Default = AssignIfNil(@, Deref(observation).IsDefault)])

\* LateInitializeQualityGate that fills Default only when the observed gate is
\* the default one
LateInitializeQualityGate_OnlyWhenDefault(spec, observation) ==
    IF IsNil(spec) \/ IsNil(observation) THEN spec
    ELSE IF ~Deref(observation).IsDefault THEN spec
    ELSE Ptr([Deref(spec) EXCEPT !.Default = AssignIfNil(@, Deref(observation).IsDefault)])

\* the pointer spec after the call (the specification is changed in place)
LateInitializeQualityGate(spec, observation) ==
    IF IsNil(spec) \/ IsNil(observation) THEN spec
    ELSE Ptr([Deref(spec) EXCEPT !.Default = AssignIfNil(@, Deref(observation).IsDefault)])

----------------------------------------------------------------------------
(* What one operation of an external client does: the resource as it       *)
(* leaves it, the remote calls it issued in order, and what it returns.    *)

Outcome(cr, calls, out, err) == [cr |-> cr, calls |-> calls, out |-> out, err |-> err]

\* one remote call: the operation, its option struct and what the client returned
Call(op, opt, res) == [op |-> op, opt |-> opt, err |-> res.err, ret |-> res.v]

\* a Show call: what it returned is kept in the resource's status, not here
ShowCall(opt, res) == [op |-> "Show", opt |-> opt, err |-> res.err]

\* meta.GetExternalName / meta.SetExternalName
GetExternalName(cr)    == cr.externalName
SetExternalName(cr, n) == [cr EXCEPT !.externalName = n]

\* cr.Status.SetConditions(xpv1.Available() / Creating() / Deleting())
SetConditions(cr, c) == [cr EXCEPT !.ready = c]

----------------------------------------------------------------------------
(* internal/controller/qualitygate: the QualityGate external client.       *)
(* Each operator takes the resource handed in and the results the remote   *)
(* client gives to the calls the operation may issue.                      *)

\* GateObserveFound with the late-initialization report inverted (cmp.Equal
\* where !cmp.Equal is meant)
GateObserveFound_EqualNotNegated(cr, call, qualityGate) ==
    LET observed == SetConditions(
                        [cr EXCEPT !.atProvider = GenerateQualityGateObservation(qualityGate)],
                        "Available")
        current  == observed.spec
        spec     == Deref(LateInitializeQualityGate(Ptr(observed.spec), Ptr(observed.atProvider)))
        after    == [observed EXCEPT !.spec = spec]
    IN  Outcome(after, <<call>>,
                [ResourceExists          |-> TRUE,
                 ResourceUpToDate        |-> IsQualityGateUpToDate(Ptr(after.spec), Ptr(after.atProvider)),
                 ResourceLateInitialized |-> current = after.spec],
                NoErr)

\* Observe, lookup succeeded: status, late initialization, comparison
GateObserveFound(cr, call, qualityGate) ==
    LET observed == SetConditions(
                        [cr EXCEPT !.atProvider = GenerateQualityGateObservation(qualityGate)],
                        "Available")
        current  == observed.spec
        spec     == Deref(LateInitializeQualityGate(Ptr(observed.spec), Ptr(observed.atProvider)))
        after    == [observed EXCEPT !.spec = spec]
    IN  Outcome(after, <<call>>,
                [ResourceExists          |-> TRUE,
                 ResourceUpToDate        |-> IsQualityGateUpToDate(Ptr(after.spec), Ptr(after.atProvider)),
                 ResourceLateInitialized |-> ~(current = after.spec)],
                NoErr)

\* GateObserveShow with the Show error dropped instead of returned
GateObserveShow_ErrorDropped(cr, show) ==
    LET externalName == GetExternalName(cr)
        call == ShowCall([Name |-> externalName], show)
    IN  IF show.err # NoErr
        THEN Outcome(cr, <<call>>, [ZeroObservation EXCEPT !.ResourceExists = FALSE], NoErr)
        ELSE GateObserveFound(cr, call, show.v)

\* GateObserveShow that forgets the external name of a gate it cannot look up
GateObserveShow_NameClearedOnError(cr, show) ==
    LET externalName == GetExternalName(cr)
        call == ShowCall([Name |-> externalName], show)
    IN  IF show.err # NoErr
        THEN Outcome(SetExternalName(cr, ""), <<call>>,
                     [ZeroObservation EXCEPT !.ResourceExists = FALSE],
                     Wrap(show.err, errShowQualityGate))
        ELSE GateObserveFound(cr, call, show.v)

\* Observe, external name set: the Show call and its error branch
GateObserveShow(cr, show) ==
    LET externalName == GetExternalName(cr)
        call == ShowCall([Name |-> externalName], show)
    IN  IF show.err # NoErr
        THEN Outcome(cr, <<call>>, [ZeroObservation EXCEPT !.ResourceExists = FALSE],
                     Wrap(show.err, errShowQualityGate))
        ELSE GateObserveFound(cr, call, show.v)

\* GateObserve without the early return on an empty external name
GateObserve_NoEarlyReturn(cr, show) ==
    IF cr.kind # "QualityGate"
    THEN Outcome(cr, <<>>, ZeroObservation, New(errNotQualityGate))
    ELSE GateObserveShow(cr, show)

GateObserve(cr, show) ==
    IF cr.kind # "QualityGate"
    THEN Outcome(cr, <<>>, ZeroObservation, New(errNotQualityGate))
    ELSE IF GetExternalName(cr) = ""
    THEN Outcome(cr, <<>>, [ZeroObservation EXCEPT !.ResourceExists = FALSE], NoErr)
    ELSE GateObserveShow(cr, show)

\* GateCreateCreated that asserts the default flag whenever Default is set,
\* true or false
GateCreateCreated_DefaultWheneverSet(cr, call, qualityGate, setDefault) ==
    LET named == SetExternalName(cr, qualityGate.ID) IN
    IF ~IsNil(named.spec.Default)
    THEN LET defCall == Call("SetAsDefault", [Name |-> named.name], setDefault) IN
         IF setDefault.err # NoErr
         THEN Outcome(named, <<call, defCall>>, ZeroObservation,
                      Wrap(setDefault.err, errDefaultQualityGate))
         ELSE Outcome(named, <<call, defCall>>, ZeroObservation, NoErr)
    ELSE Outcome(named, <<call>>, ZeroObservation, NoErr)

\* GateCreateCreated that sets the external name only after the default flag
\* was set, so that a failure there loses it
GateCreateCreated_NameLostOnDefaultFailure(cr, call, qualityGate, setDefault) ==
    LET named == SetExternalName(cr, qualityGate.ID) IN
    IF ~IsNil(cr.spec.Default) /\ Deref(cr.spec.Default)
    THEN LET defCall == Call("SetAsDefault", [Name |-> cr.name], setDefault) IN
         IF setDefault.err # NoErr
         THEN Outcome(cr, <<call, defCall>>, ZeroObservation,
                      Wrap(setDefault.err, errDefaultQualityGate))
         ELSE Outcome(named, <<call, defCall>>, ZeroObservation, NoErr)
    ELSE Outcome(named, <<call>>, ZeroObservation, NoErr)

\* Create, remote create succeeded: external name, then the default flag
GateCreateCreated(cr, call, qualityGate, setDefault) ==
    LET named == SetExternalName(cr, qualityGate.ID) IN
    IF ~IsNil(named.spec.Default) /\ Deref(named.spec.Default)
    THEN LET defCall == Call("SetAsDefault", [Name |-> named.name], setDefault) IN
         IF setDefault.err # NoErr
         THEN Outcome(named, <<call, defCall>>, ZeroObservation,
                      Wrap(setDefault.err, errDefaultQualityGate))
         ELSE Outcome(named, <<call, defCall>>, ZeroObservation, NoErr)
    ELSE Outcome(named, <<call>>, ZeroObservation, NoErr)

\* GateCreate that goes on after a failed remote create
GateCreate_ErrorIgnored(cr, create, setDefault) ==
    IF cr.kind # "QualityGate"
    THEN Outcome(cr, <<>>, ZeroObservation, New(errNotQualityGate))
    ELSE LET creating == SetConditions(cr, "Creating")
             call == Call("Create", GenerateQualityGateCreateOptions(creating.spec), create)
         IN  GateCreateCreated(creating, call, create.v, setDefault)

GateCreate(cr, create, setDefault) ==
    IF cr.kind # "QualityGate"
    THEN Outcome(cr, <<>>, ZeroObservation, New(errNotQualityGate))
    ELSE LET creating == SetConditions(cr, "Creating")
             call == Call("Create", GenerateQualityGateCreateOptions(creating.spec), create)
         IN  IF create.err # NoErr
             THEN Outcome(creating, <<call>>, ZeroObservation,
                          Wrap(create.err, errCreateQualityGate))
             ELSE GateCreateCreated(creating, call, create.v, setDefault)

\* GateUpdateDefault that asserts the default flag only when the gate was not
\* observed as the default one
GateUpdateDefault_OnlyOnChange(cr, calls, setDefault) ==
    IF ~IsNil(cr.spec.Default) /\ Deref(cr.spec.Default) /\ ~cr.atProvider.IsDefault
    THEN LET defCall == Call("SetAsDefault", [Name |-> cr.spec.Name], setDefault) IN
         IF setDefault.err # NoErr
         THEN Outcome(cr, Append(calls, defCall), ZeroObservation,
                      Wrap(setDefault.err, errDefaultQualityGate))
         ELSE Outcome(cr, Append(calls, defCall), ZeroObservation, NoErr)
    ELSE Outcome(cr, calls, ZeroObservation, NoErr)

\* GateUpdateDefault that asserts the default flag whenever Default is set,
\* true or false
GateUpdateDefault_WheneverSet(cr, calls, setDefault) ==
    IF ~IsNil(cr.spec.Default)
    THEN LET defCall == Call("SetAsDefault", [Name |-> cr.spec.Name], setDefault) IN
         IF setDefault.err # NoErr
         THEN Outcome(cr, Append(calls, defCall), ZeroObservation,
                      Wrap(setDefault.err, errDefaultQualityGate))
         ELSE Outcome(cr, Append(calls, defCall), ZeroObservation, NoErr)
    ELSE Outcome(cr, calls, ZeroObservation, NoErr)

\* Update, after any rename: reassert the default flag when it is requested
GateUpdateDefault(cr, calls, setDefault) ==
    IF ~IsNil(cr.spec.Default) /\ Deref(cr.spec.Default)
    THEN LET defCall == Call("SetAsDefault", [Name |-> cr.spec.Name], setDefault) IN
         IF setDefault.err # NoErr
         THEN Outcome(cr, Append(calls, defCall), ZeroObservation,
                      Wrap(setDefault.err, errDefaultQualityGate))
         ELSE Outcome(cr, Append(calls, defCall), ZeroObservation, NoErr)
    ELSE Outcome(cr, calls, ZeroObservation, NoErr)

\* GateUpdateRename that leaves the external name as it was after a rename
GateUpdateRename_NameNotUpdated(cr, rename, setDefault) ==
    LET externalName == GetExternalName(cr) IN
    IF cr.spec.Name # externalName
    THEN LET call == Call("Rename", [CurrentName |-> externalName, Name |-> cr.spec.Name],
                          rename)
         IN  IF rename.err # NoErr
             THEN Outcome(cr, <<call>>, ZeroObservation, Wrap(rename.err, errUpdateQualityGate))
             ELSE GateUpdateDefault(cr, <<call>>, setDefault)
    ELSE GateUpdateDefault(cr, <<>>, setDefault)

\* GateUpdateRename that goes on to the default flag after a failed rename
GateUpdateRename_ErrorIgnored(cr, rename, setDefault) ==
    LET externalName == GetExternalName(cr) IN
    IF cr.spec.Name # externalName
    THEN LET call == Call("Rename", [CurrentName |-> externalName, Name |-> cr.spec.Name],
                          rename)
         IN  IF rename.err # NoErr
             THEN GateUpdateDefault(cr, <<call>>, setDefault)
             ELSE GateUpdateDefault(SetExternalName(cr, cr.spec.Name), <<call>>, setDefault)
    ELSE GateUpdateDefault(cr, <<>>, setDefault)

\* Update, external name set: rename when the desired name has changed
GateUpdateRename(cr, rename, setDefault) ==
    LET externalName == GetExternalName(cr) IN
    IF cr.spec.Name # externalName
    THEN LET call == Call("Rename", [CurrentName |-> externalName, Name |-> cr.spec.Name],
                          rename)
         IN  IF rename.err # NoErr
             THEN Outcome(cr, <<call>>, ZeroObservation, Wrap(rename.err, errUpdateQualityGate))
             ELSE GateUpdateDefault(SetExternalName(cr, cr.spec.Name), <<call>>, setDefault)
    ELSE GateUpdateDefault(cr, <<>>, setDefault)

\* GateUpdate without the check of the external name
GateUpdate_NoPrecondition(cr, rename, setDefault) ==
    IF cr.kind # "QualityGate"
    THEN Outcome(cr, <<>>, ZeroObservation, New(errNotQualityGate))
    ELSE GateUpdateRename(cr, rename, setDefault)

GateUpdate(cr, rename, setDefault) ==
    IF cr.kind # "QualityGate"
    THEN Outcome(cr, <<>>, ZeroObservation, New(errNotQualityGate))
    ELSE IF GetExternalName(cr) = ""
    THEN Outcome(cr, <<>>, ZeroObservation,
                 New("external name is not set for Quality Gate " \o cr.name))
    ELSE GateUpdateRename(cr, rename, setDefault)

\* GateDelete that gives up the external name before the Destroy call has
\* succeeded
GateDelete_NameClearedOnFailure(cr, destroy) ==
    IF cr.kind # "QualityGate"
    THEN Outcome(cr, <<>>, ZeroObservation, New(errNotQualityGate))
    ELSE LET deleting == SetConditions(cr, "Deleting") IN
         IF GetExternalName(deleting) = ""
         THEN Outcome(deleting, <<>>, ZeroObservation, NoErr)
         ELSE LET call == Call("Destroy", [Name |-> deleting.name], destroy) IN
              IF destroy.err # NoErr
              THEN Outcome(SetExternalName(deleting, ""), <<call>>, ZeroObservation,
                           Wrap(destroy.err, errDeleteQualityGate))
              ELSE Outcome(deleting, <<call>>, ZeroObservation, NoErr)

GateDelete(cr, destroy) ==
    IF cr.kind # "QualityGate"
    THEN Outcome(cr, <<>>, ZeroObservation, New(errNotQualityGate))
    ELSE LET deleting == SetConditions(cr, "Deleting") IN
         IF GetExternalName(deleting) = ""
         THEN Outcome(deleting, <<>>, ZeroObservation, NoErr)
         ELSE LET call == Call("Destroy", [Name |-> deleting.name], destroy) IN
              IF destroy.err # NoErr
              THEN Outcome(deleting, <<call>>, ZeroObservation,
                           Wrap(destroy.err, errDeleteQualityGate))
              ELSE Outcome(deleting, <<call>>, ZeroObservation, NoErr)

----------------------------------------------------------------------------
(* internal/controller/qualitygatecondition: the QualityGateCondition      *)
(* external client.                                                        *)

\* what an operation that dereferences a nil pointer ends with: a run-time
\* panic, not an error value
Panic == New("panic: runtime error: invalid memory address or nil pointer dereference")

\* Observe, condition found in the Show result: status, late initialization, comparison
ConditionObserveFound(cr, call, observation) ==
    LET observed == SetConditions([cr EXCEPT !.atProvider = observation], "Available")
        current  == observed.spec
        spec     == Deref(LateInitializeQualityGateCondition(Ptr(observed.spec),
                                                             Ptr(observed.atProvider)))
        after    == [observed EXCEPT !.spec = spec]
    IN  Outcome(after, <<call>>,
                [ResourceExists          |-> TRUE,
                 ResourceUpToDate        |-> IsQualityGateConditionUpToDate(Ptr(after.spec),
                                                                            Ptr(after.atProvider)),
                 ResourceLateInitialized |-> ~(current = after.spec)],
                NoErr)

\* ConditionObserveShow that marks the resource available as soon as the Show
\* call has succeeded, before its condition is looked for
ConditionObserveShow_AvailableBeforeFind(cr, show) ==
    LET externalName == GetExternalName(cr)
        call == ShowCall([Name |-> externalName], show)
    IN  IF show.err # NoErr
        THEN Outcome(cr, <<call>>, [ZeroObservation EXCEPT !.ResourceExists = FALSE],
                     Wrap(show.err, errShowQualityGateCondition))
        ELSE LET found == FindQualityGateConditionObservation(externalName, show.v.Conditions) IN
             IF found.err # NoErr
             THEN Outcome(SetConditions(cr, "Available"), <<call>>,
                          [ZeroObservation EXCEPT !.ResourceExists = FALSE],
                          Wrap(found.err, errShowQualityGateCondition))
             ELSE ConditionObserveFound(cr, call, found.v)

\* Observe, external name set: the Show call, then the search of its conditions
ConditionObserveShow(cr, show) ==
    LET externalName == GetExternalName(cr)
        call == ShowCall([Name |-> externalName], show)
    IN  IF show.err # NoErr
        THEN Outcome(cr, <<call>>, [ZeroObservation EXCEPT !.ResourceExists = FALSE],
                     Wrap(show.err, errShowQualityGateCondition))
        ELSE LET found == FindQualityGateConditionObservation(externalName, show.v.Conditions) IN
             IF found.err # NoErr
             THEN Outcome(cr, <<call>>, [ZeroObservation EXCEPT !.ResourceExists = FALSE],
                          Wrap(found.err, errShowQualityGateCondition))
             ELSE ConditionObserveFound(cr, call, found.v)

ConditionObserve(cr, show) ==
    IF cr.kind # "QualityGateCondition"
    THEN Outcome(cr, <<>>, ZeroObservation, New(errNotQualityGateCondition))
    ELSE IF GetExternalName(cr) = ""
    THEN Outcome(cr, <<>>, [ZeroObservation EXCEPT !.ResourceExists = FALSE], NoErr)
    ELSE ConditionObserveShow(cr, show)

ConditionCreate(cr, create) ==
    IF cr.kind # "QualityGateCondition"
    THEN Outcome(cr, <<>>, ZeroObservation, New(errNotQualityGateCondition))
    ELSE LET creating == SetConditions(cr, "Creating") IN
         IF IsNil(creating.spec.QualityGateName)
         THEN Outcome(creating, <<>>, ZeroObservation, Panic)
         ELSE LET call == Call("CreateCondition",
                               GenerateCreateQualityGateConditionOption(creating.spec), create)
              IN  IF create.err # NoErr
                  THEN Outcome(creating, <<call>>, ZeroObservation,
                               Wrap(create.err, errCreateQualityGateCondition))
                  ELSE Outcome(SetExternalName(creating, create.v.ID), <<call>>,
                               ZeroObservation, NoErr)

ConditionUpdate(cr, update) ==
    IF cr.kind # "QualityGateCondition"
    THEN Outcome(cr, <<>>, ZeroObservation, New(errNotQualityGateCondition))
    ELSE LET externalName == GetExternalName(cr) IN
         IF externalName = ""
         THEN Outcome(cr, <<>>, ZeroObservation,
                      New("external name is not set for Quality Gate Condition " \o cr.name))
         ELSE LET call == Call("UpdateCondition",
                               GenerateUpdateQualityGateConditionOption(externalName, cr.spec),
                               update)
              IN  IF update.err # NoErr
                  THEN Outcome(cr, <<call>>, ZeroObservation,
                               Wrap(update.err, errUpdateQualityGateCondition))
                  ELSE Outcome(cr, <<call>>, ZeroObservation, NoErr)

\* ConditionDelete without the check of the resource's kind
ConditionDelete_NoKindCheck(cr, delete) ==
    LET deleting == SetConditions(cr, "Deleting")
        externalName == GetExternalName(deleting)
    IN  IF externalName = ""
        THEN Outcome(deleting, <<>>, ZeroObservation, NoErr)
        ELSE LET call == Call("DeleteCondition",
                              GenerateDeleteQualityGateConditionOption(externalName),
                              delete)
             IN  IF delete.err # NoErr
                 THEN Outcome(deleting, <<call>>, ZeroObservation,
                              Wrap(delete.err, errDeleteQualityGateCondition))
                 ELSE Outcome(deleting, <<call>>, ZeroObservation, NoErr)

\* ConditionDelete without the early return on an empty external name
ConditionDelete_NoEarlyReturn(cr, delete) ==
    IF cr.kind # "QualityGateCondition"
    THEN Outcome(cr, <<>>, ZeroObservation, New(errNotQualityGateCondition))
    ELSE LET deleting == SetConditions(cr, "Deleting")
             externalName == GetExternalName(deleting)
             call == Call("DeleteCondition",
                          GenerateDeleteQualityGateConditionOption(externalName), delete)
         IN  IF delete.err # NoErr
             THEN Outcome(deleting, <<call>>, ZeroObservation,
                          Wrap(delete.err, errDeleteQualityGateCondition))
             ELSE Outcome(deleting, <<call>>, ZeroObservation, NoErr)

ConditionDelete(cr, delete) ==
    IF cr.kind # "QualityGateCondition"
    THEN Outcome(cr, <<>>, ZeroObservation, New(errNotQualityGateCondition))
    ELSE LET deleting == SetConditions(cr, "Deleting")
             externalName == GetExternalName(deleting)
         IN  IF externalName = ""
             THEN Outcome(deleting, <<>>, ZeroObservation, NoErr)
             ELSE LET call == Call("DeleteCondition",
                                   GenerateDeleteQualityGateConditionOption(externalName),
                                   delete)
                  IN  IF delete.err # NoErr
                      THEN Outcome(deleting, <<call>>, ZeroObservation,
                                   Wrap(delete.err, errDeleteQualityGateCondition))
                      ELSE Outcome(deleting, <<call>>, ZeroObservation, NoErr)

----------------------------------------------------------------------------
(* The state machine: the reconcilers are handed a stored resource and run *)
(* one operation on it; the operation's changes to the resource are kept.  *)

\* the handle under which the resource being reconciled is stored
MR == "mr"

\* no function call under way (n counts the calls made of fn on args, ret is
\* the list of the values the last one returned)
NoEval == [fn |-> "", args |-> <<>>, n |-> 0, ret |-> <<>>]

\* a remote that is not kept track of, and no reconcile under way
NoRemote == [gates |-> <<>>, ids |-> {}]
NoTodo   == <<>>

Ran(op, mg, o) ==
    /\ crs'  = [crs EXCEPT ![mg] = o.cr]
    /\ last' = [op |-> op, mg |-> mg, calls |-> o.calls, out |-> o.out, err |-> o.err]
    /\ UNCHANGED <<eval, ctx, remote, todo>>

Init ==
    /\ crs \in [{MR} -> QualityGates \cup QualityGateConditions]
    /\ last = [op |-> "", mg |-> MR, calls |-> <<>>, out |-> ZeroObservation, err |-> NoErr]
    /\ eval = NoEval
    /\ ctx = "live"
    /\ remote = NoRemote
    /\ todo = NoTodo

\* the results the remote may give to the Create call of Create on cr (a
\* resource of another kind is turned away before any call)
CreateResultsFor(cr) ==
    IF cr.kind = "QualityGate"
    THEN CreateResults(GenerateQualityGateCreateOptions(cr.spec))
    ELSE Failures([ID |-> "", Name |-> ""])

\* the results the remote may give to the Show call of the Observe of the
\* reconciler of kind on cr (a resource of another kind is turned away before
\* any call)
ShowResultsFor(cr, kind) ==
    IF cr.kind = kind THEN ShowResults ELSE Failures(ZeroShowObject)

RunGateObserve ==
    \E mg \in DOMAIN crs :
        \E show \in ShowResultsFor(crs[mg], "QualityGate") :
            Ran("qualitygate.Observe", mg, GateObserve(crs[mg], show))

RunGateCreate ==
    \E mg \in DOMAIN crs, setDefault \in PlainResults :
        \E create \in CreateResultsFor(crs[mg]) :
            Ran("qualitygate.Create", mg, GateCreate(crs[mg], create, setDefault))

RunGateUpdate ==
    \E mg \in DOMAIN crs, rename \in PlainResults, setDefault \in PlainResults :
        Ran("qualitygate.Update", mg, GateUpdate(crs[mg], rename, setDefault))

RunGateDelete ==
    \E mg \in DOMAIN crs, destroy \in PlainResults :
        Ran("qualitygate.Delete", mg, GateDelete(crs[mg], destroy))

RunConditionObserve ==
    \E mg \in DOMAIN crs :
        \E show \in ShowResultsFor(crs[mg], "QualityGateCondition") :
            Ran("qualitygatecondition.Observe", mg, ConditionObserve(crs[mg], show))

RunConditionCreate ==
    \E mg \in DOMAIN crs, create \in CreateConditionResults :
        Ran("qualitygatecondition.Create", mg, ConditionCreate(crs[mg], create))

RunConditionUpdate ==
    \E mg \in DOMAIN crs, update \in PlainResults :
        Ran("qualitygatecondition.Update", mg, ConditionUpdate(crs[mg], update))

RunConditionDelete ==
    \E mg \in DOMAIN crs, delete \in PlainResults :
        Ran("qualitygatecondition.Delete", mg, ConditionDelete(crs[mg], delete))

Next ==
    \/ RunGateObserve
    \/ RunGateCreate
    \/ RunGateUpdate
    \/ RunGateDelete
    \/ RunConditionObserve
    \/ RunConditionCreate
    \/ RunConditionUpdate
    \/ RunConditionDelete

Spec == Init /\ [][Next]_vars

----------------------------------------------------------------------------
(* The functions of internal/clients/instance called on their own, as the  *)
(* package's table tests call them: the arguments are drawn, then the      *)
(* function is applied and its result recorded next to them.               *)

\* names a remote gate may carry: the desired ones, one that differs from a
\* desired one only by case, and the empty name
ObservedNames == Names \cup {"A", ""}

\* sonargo.QualitygatesShowObject_sub1 with every action allowed
AllActions ==
    [AssociateProjects |-> TRUE, Copy |-> TRUE, Delegate |-> TRUE, Delete |-> TRUE,
     ManageAiCodeAssurance |-> TRUE, ManageConditions |-> TRUE, Rename |-> TRUE,
     SetAsDefault |-> TRUE]

\* v1alpha1.QualityGateObservation
QualityGateObservations ==
    [Actions : {NoActions, AllActions}, CaycStatus : {"compliant", "non-compliant"},
     Conditions : {NilSlice, MkSlice(<<>>),
                   MkSlice(<<[Error |-> "80", ID |-> "c1", Metric |-> "coverage", Op |-> "LT"]>>)},
     IsAiCodeSupported : BOOLEAN, IsBuiltIn : BOOLEAN, IsDefault : BOOLEAN,
     Name : ObservedNames]

\* the argument lists of the comparator and late initializer of the gate:
\* pointers to a specification and to an observation
QualityGateArguments ==
    {<<spec, observation>> : spec \in Optional(QualityGateParameters),
                             observation \in Optional(QualityGateObservations)}

\* operators a remote condition may carry: the two of the API and one that
\* differs from one of them only by case
ObservedOps == Ops \cup {"lt"}

\* v1alpha1.QualityGateConditionObservation
QualityGateConditionObservations ==
    [Error : Errors, ID : CondIds, Metric : Metrics, Op : ObservedOps]

\* xpv1.NamespacedReference and xpv1.NamespacedSelector values of a condition
References == {[Name |-> "gate-a"]}
Selectors  == {[MatchLabels |-> "team"]}

\* v1alpha1.QualityGateConditionParameters with the parent given in any of
\* its three ways
ReferencedConditionParameters ==
    [QualityGateName : Optional(Names), QualityGateRef : Optional(References),
     QualityGateSelector : Optional(Selectors),
     Error : Errors, Metric : Metrics, Op : Optional(Ops)]

\* the argument lists of the comparator and late initializer of the
\* condition: pointers to a specification and to an observation
ConditionArguments ==
    {<<params, observation>> : params \in Optional(ReferencedConditionParameters),
                               observation \in Optional(QualityGateConditionObservations)}

\* longest condition list handed to the list functions
MaxList == 2

\* sonargo.QualitygatesShowObject_sub2 values: any id, metric and operator
\* with the thresholds the remote holds
RemoteConditions == [ID : CondIds, Metric : Metrics, Error : RemoteErrors, Op : Ops]

\* []sonargo.QualitygatesShowObject_sub2: nil, empty, or up to MaxList long
RemoteConditionLists ==
    {NilSlice} \cup {MkSlice(l) : l \in SeqUpTo(RemoteConditions, MaxList)}

\* ids looked for: the ones conditions carry and one that none carries
SoughtIds == CondIds \cup {"c3"}

ListArguments == {<<conditions>> : conditions \in RemoteConditionLists}
FindArguments == {<<id, conditions>> : id \in SoughtIds, conditions \in RemoteConditionLists}

\* a function of the package and an argument list for it
Called(fns, arguments) == {[NoEval EXCEPT !.fn = f, !.args = a] : f \in fns, a \in arguments}

FunctionCalls ==
    Called({"IsQualityGateUpToDate", "LateInitializeQualityGate"}, QualityGateArguments)
        \cup Called({"IsQualityGateConditionUpToDate", "LateInitializeQualityGateCondition"},
                    ConditionArguments)
        \cup Called({"GenerateQualityGateConditionsObservation"}, ListArguments)
        \cup Called({"FindQualityGateConditionObservation"}, FindArguments)

FunctionsInit ==
    /\ crs = [mg \in {MR} |-> [kind |-> ""]]
    /\ last = [op |-> "", mg |-> MR, calls |-> <<>>, out |-> ZeroObservation, err |-> NoErr]
    /\ eval \in FunctionCalls
    /\ ctx = "live"
    /\ remote = NoRemote
    /\ todo = NoTodo

\* instance.IsQualityGateUpToDate(spec, observation)
ApplyIsQualityGateUpToDate ==
    /\ eval.fn = "IsQualityGateUpToDate"
    /\ eval.n = 0
    /\ eval' = [eval EXCEPT !.n = 1,
                            !.ret = <<IsQualityGateUpToDate(eval.args[1], eval.args[2])>>]
    /\ UNCHANGED <<crs, last, ctx, remote, todo>>

\* instance.IsQualityGateConditionUpToDate(params, observation)
ApplyIsQualityGateConditionUpToDate ==
    /\ eval.fn = "IsQualityGateConditionUpToDate"
    /\ eval.n = 0
    /\ eval' = [eval EXCEPT !.n = 1,
                            !.ret = <<IsQualityGateConditionUpToDate(eval.args[1], eval.args[2])>>]
    /\ UNCHANGED <<crs, last, ctx, remote, todo>>

\* how often a late initializer is called on the same arguments
MaxCalls == 2

\* instance.LateInitializeQualityGate(spec, observation): returns nothing,
\* changes what spec points to
ApplyLateInitializeQualityGate ==
    /\ eval.fn = "LateInitializeQualityGate"
    /\ eval.n < MaxCalls
    /\ eval' = [eval EXCEPT !.n = @ + 1,
                            !.args[1] = LateInitializeQualityGate(eval.args[1], eval.args[2])]
    /\ UNCHANGED <<crs, last, ctx, remote, todo>>

\* instance.LateInitializeQualityGateCondition(params, observation)
ApplyLateInitializeQualityGateCondition ==
    /\ eval.fn = "LateInitializeQualityGateCondition"
    /\ eval.n < MaxCalls
    /\ eval' = [eval EXCEPT !.n = @ + 1,
                            !.args[1] = LateInitializeQualityGateCondition(eval.args[1],
                                                                           eval.args[2])]
    /\ UNCHANGED <<crs, last, ctx, remote, todo>>

\* instance.GenerateQualityGateConditionsObservation(conditions)
ApplyGenerateQualityGateConditionsObservation ==
    /\ eval.fn = "GenerateQualityGateConditionsObservation"
    /\ eval.n = 0
    /\ eval' = [eval EXCEPT !.n = 1,
                            !.ret = <<GenerateQualityGateConditionsObservation(eval.args[1])>>]
    /\ UNCHANGED <<crs, last, ctx, remote, todo>>

\* instance.FindQualityGateConditionObservation(id, condition): returns the
\* observation and the error
ApplyFindQualityGateConditionObservation ==
    /\ eval.fn = "FindQualityGateConditionObservation"
    /\ eval.n = 0
    /\ LET found == FindQualityGateConditionObservation(eval.args[1], eval.args[2]) IN
            eval' = [eval EXCEPT !.n = 1, !.ret = <<found.v, found.err>>]
    /\ UNCHANGED <<crs, last, ctx, remote, todo>>

FunctionsNext ==
    \/ ApplyIsQualityGateUpToDate
    \/ ApplyIsQualityGateConditionUpToDate
    \/ ApplyLateInitializeQualityGate
    \/ ApplyLateInitializeQualityGateCondition
    \/ ApplyGenerateQualityGateConditionsObservation
    \/ ApplyFindQualityGateConditionObservation

FunctionsSpec == FunctionsInit /\ [][FunctionsNext]_vars

----------------------------------------------------------------------------
(* apis/instance/v1alpha1/referencers.go: resolution of a condition's      *)
(* parent gate.  The store holds the condition under MR and the gates that *)
(* exist under their metadata.name; the resolver reads the gates.          *)

errResolveQualityGateRef == "cannot resolve qualityGateName reference"

\* metadata.name of the gates a reference or a selector may lead to
GateHandles == {"gate-a", "gate-b"}
Labels      == {"team", "other"}

\* a gate as the resolver reads it: its name, its labels and its external name
StoredGates(h) ==
    [kind : {"QualityGate"}, name : {h}, labels : Labels,
     spec : {[Name |-> "a", Default |-> Nil]}, externalName : {""} \cup Names,
     atProvider : {ZeroQualityGateObservation}, ready : {""}]

\* the gates of the store
GatesOf(store) == {h \in DOMAIN store : store[h].kind = "QualityGate"}

\* reference.ExternalName(): the value extracted from a parent
ExtractExternalName(gate) == gate.externalName

\* the resolver's answer for a parent it has found: the parent's external
\* name, or an error when the parent has none yet
ResolvedTo(gate, ref) ==
    IF ExtractExternalName(gate) = ""
    THEN [err |-> New("referenced field was empty (referenced resource may not yet be ready)"),
          v |-> [ResolvedValue |-> "", ResolvedReference |-> Nil]]
    ELSE [err |-> NoErr,
          v |-> [ResolvedValue |-> ExtractExternalName(gate), ResolvedReference |-> ref]]

ResolveFailure(msg) ==
    [err |-> New(msg), v |-> [ResolvedValue |-> "", ResolvedReference |-> Nil]]

\* the resolver: an already-resolved name is used as it is; otherwise a
\* reference is looked up by name; otherwise a selector must match exactly one
\* gate; with nothing to resolve the request is answered as it came
Resolve(req, store) ==
    IF req.CurrentValue # ""
    THEN [err |-> NoErr,
          v |-> [ResolvedValue |-> req.CurrentValue, ResolvedReference |-> req.Reference]]
    ELSE IF ~IsNil(req.Reference)
    THEN LET h == Deref(req.Reference).Name IN
         IF h \notin GatesOf(store)
         THEN ResolveFailure("cannot get referenced resource")
         ELSE ResolvedTo(store[h], req.Reference)
    ELSE IF ~IsNil(req.Selector)
    THEN LET matches == {h \in GatesOf(store) :
                            store[h].labels = Deref(req.Selector).MatchLabels} IN
         IF matches = {} THEN ResolveFailure("no resources matched selector")
         ELSE IF Cardinality(matches) > 1
         THEN ResolveFailure("more than one resource matched selector")
         ELSE LET h == CHOOSE m \in matches : TRUE IN ResolvedTo(store[h], Ptr([Name |-> h]))
    ELSE [err |-> NoErr,
          v |-> [ResolvedValue |-> req.CurrentValue, ResolvedReference |-> req.Reference]]

\* ResolveReferences that forgets to store the reference back
ResolveReferences_ReferenceDropped(mg, store) ==
    IF IsNil(mg.spec.QualityGateName)
    THEN Outcome(mg, <<>>, ZeroObservation, Panic)
    ELSE LET req == [CurrentValue |-> Deref(mg.spec.QualityGateName),
                     Reference    |-> mg.spec.QualityGateRef,
                     Selector     |-> mg.spec.QualityGateSelector]
             rsp == Resolve(req, store)
             call == Call("Resolve", req, rsp)
         IN  IF rsp.err # NoErr
             THEN Outcome(mg, <<call>>, ZeroObservation,
                          Wrap(rsp.err, errResolveQualityGateRef))
             ELSE Outcome([mg EXCEPT !.spec.QualityGateName = Ptr(rsp.v.ResolvedValue),
                                     !.spec.QualityGateRef  = Nil],
                          <<call>>, ZeroObservation, NoErr)

\* ResolveReferences that hands the resolver no current value when the
\* condition has a reference, so that the parent is looked up anew each time
ResolveReferences_Reresolved(mg, store) ==
    IF IsNil(mg.spec.QualityGateName)
    THEN Outcome(mg, <<>>, ZeroObservation, Panic)
    ELSE LET req == [CurrentValue |-> IF IsNil(mg.spec.QualityGateRef)
                                      THEN Deref(mg.spec.QualityGateName) ELSE "",
                     Reference    |-> mg.spec.QualityGateRef,
                     Selector     |-> mg.spec.QualityGateSelector]
             rsp == Resolve(req, store)
             call == Call("Resolve", req, rsp)
         IN  IF rsp.err # NoErr
             THEN Outcome(mg, <<call>>, ZeroObservation,
                          Wrap(rsp.err, errResolveQualityGateRef))
             ELSE Outcome([mg EXCEPT !.spec.QualityGateName = Ptr(rsp.v.ResolvedValue),
                                     !.spec.QualityGateRef  = rsp.v.ResolvedReference],
                          <<call>>, ZeroObservation, NoErr)

\* (mg *QualityGateCondition) ResolveReferences(ctx, c): the request is built
\* by dereferencing QualityGateName, which ends the call when it is nil
ResolveReferences(mg, store) ==
    IF IsNil(mg.spec.QualityGateName)
    THEN Outcome(mg, <<>>, ZeroObservation, Panic)
    ELSE LET req == [CurrentValue |-> Deref(mg.spec.QualityGateName),
                     Reference    |-> mg.spec.QualityGateRef,
                     Selector     |-> mg.spec.QualityGateSelector]
             rsp == Resolve(req, store)
             call == Call("Resolve", req, rsp)
         IN  IF rsp.err # NoErr
             THEN Outcome(mg, <<call>>, ZeroObservation,
                          Wrap(rsp.err, errResolveQualityGateRef))
             ELSE Outcome([mg EXCEPT !.spec.QualityGateName = Ptr(rsp.v.ResolvedValue),
                                     !.spec.QualityGateRef  = rsp.v.ResolvedReference],
                          <<call>>, ZeroObservation, NoErr)

\* the conditions whose parent is to be resolved
ReferencingConditions ==
    [kind : {"QualityGateCondition"}, name : MetaNames,
     spec : [QualityGateName : Optional(Names), QualityGateRef : Optional(References),
             QualityGateSelector : Optional(Selectors),
             Error : {"80"}, Metric : {"coverage"}, Op : {Nil}],
     externalName : {""} \cup CondIds,
     atProvider : {ZeroQualityGateConditionObservation}, ready : {""}]

\* the gates of a store that holds the gates named in G, each under its name
StoredGateSets(G) ==
    {gates \in [G -> UNION {StoredGates(h) : h \in GateHandles}] :
        \A h \in G : gates[h].name = h}

\* the stores: the condition under MR and any of the gates
Stores ==
    UNION {{[h \in {MR} \cup G |-> IF h = MR THEN cond ELSE gates[h]] :
                cond \in ReferencingConditions, gates \in StoredGateSets(G)}
            : G \in SUBSET GateHandles}

ResolveInit ==
    /\ crs \in Stores
    /\ last = [op |-> "", mg |-> MR, calls |-> <<>>, out |-> ZeroObservation, err |-> NoErr]
    /\ eval = NoEval
    /\ ctx = "live"
    /\ remote = NoRemote
    /\ todo = NoTodo

RunResolveReferences ==
    Ran("ResolveReferences", MR, ResolveReferences(crs[MR], crs))

ResolveNext ==
    \/ RunResolveReferences

ResolveSpec == ResolveInit /\ [][ResolveNext]_vars

----------------------------------------------------------------------------
(* Cancellation.  Every operation of the external clients is handed a      *)
(* context.Context that its caller may cancel at any time.  No method of    *)
(* QualityGatesClient takes a context and no operation reads the one it is  *)
(* handed, so the operations run as above whatever has become of it.        *)

\* the caller cancels the context of the reconcile
CancelContext ==
    /\ ctx = "live"
    /\ ctx' = "cancelled"
    /\ UNCHANGED <<crs, last, eval, remote, todo>>

CancelNext ==
    \/ Next
    \/ CancelContext

CancelSpec == Init /\ [][CancelNext]_vars

----------------------------------------------------------------------------
(* The remote kept track of.  It holds its quality gates under their       *)
(* display names, each with its conditions; exactly one gate is the        *)
(* default one.  It answers every call of QualityGatesClient from what it  *)
(* holds and fails a call only when what the call names is not there, or   *)
(* is there already.                                                       *)

\* the gate every SonarQube holds from the start
BuiltIn == "Sonar way"

\* ids the remote generates for the gates and conditions created on it: one
\* more of each than it is ever asked for
RemoteGateIds      == GateIds \cup {"id2", "id3"}
RemoteConditionIds == CondIds \cup {"c3"}

\* [res, remote]: what the remote answers to a call and what it holds then
Answered(v, rem)   == [res |-> [err |-> NoErr, v |-> v], remote |-> rem]
Refused(msg, zero, rem) == [res |-> [err |-> New(msg), v |-> zero], remote |-> rem]

\* f with v under k
Put(f, k, v) == [n \in DOMAIN f \cup {k} |-> IF n = k THEN v ELSE f[n]]

ServeShow(rem, opt) ==
    IF opt.Name \notin DOMAIN rem.gates
    THEN Refused("not found", ZeroShowObject, rem)
    ELSE Answered([Name |-> opt.Name, IsDefault |-> rem.gates[opt.Name].IsDefault,
                   IsBuiltIn |-> opt.Name = BuiltIn, IsAiCodeSupported |-> FALSE,
                   CaycStatus |-> "compliant", Actions |-> NoActions,
                   Conditions |-> MkSlice(rem.gates[opt.Name].Conditions)], rem)

\* a new gate is never the default one and has no conditions
ServeCreate(rem, opt, id) ==
    IF opt.Name \in DOMAIN rem.gates
    THEN Refused("api error", [ID |-> "", Name |-> ""], rem)
    ELSE Answered([ID |-> id, Name |-> opt.Name],
                  [gates |-> Put(rem.gates, opt.Name, [IsDefault |-> FALSE, Conditions |-> <<>>]),
                   ids   |-> rem.ids \cup {id}])

ServeRename(rem, opt) ==
    IF opt.CurrentName \notin DOMAIN rem.gates THEN Refused("not found", "", rem)
    ELSE IF opt.Name \in DOMAIN rem.gates THEN Refused("api error", "", rem)
    ELSE Answered("", [rem EXCEPT !.gates =
                        [n \in (DOMAIN rem.gates \ {opt.CurrentName}) \cup {opt.Name} |->
                            IF n = opt.Name THEN rem.gates[opt.CurrentName] ELSE rem.gates[n]]])

\* the gate named becomes the default one, and no other gate is
ServeSetAsDefault(rem, opt) ==
    IF opt.Name \notin DOMAIN rem.gates THEN Refused("not found", "", rem)
    ELSE Answered("", [rem EXCEPT !.gates =
                        [n \in DOMAIN rem.gates |->
                            [rem.gates[n] EXCEPT !.IsDefault = (n = opt.Name)]]])

\* the condition is added to the gate named; the remote chooses the operator
\* of a condition created without one
ServeCreateCondition(rem, opt, id, op) ==
    IF opt.GateName \notin DOMAIN rem.gates THEN Refused("not found", [ID |-> ""], rem)
    ELSE LET condition == [ID |-> id, Metric |-> opt.Metric, Error |-> opt.Error,
                           Op |-> IF opt.Op = "" THEN op ELSE opt.Op]
         IN  Answered([ID |-> id],
                      [gates |-> [rem.gates EXCEPT ![opt.GateName].Conditions =
                                                        Append(@, condition)],
                       ids   |-> rem.ids \cup {id}])

\* the condition of that id, of whatever gate, takes the values given
ServeUpdateCondition(rem, opt) ==
    LET Updated(c) == IF c.ID # opt.Id THEN c
                      ELSE [ID |-> c.ID, Metric |-> opt.Metric, Error |-> opt.Error,
                            Op |-> IF opt.Op = "" THEN c.Op ELSE opt.Op]
        held == \E n \in DOMAIN rem.gates :
                    \E i \in 1..Len(rem.gates[n].Conditions) :
                        rem.gates[n].Conditions[i].ID = opt.Id
    IN  IF ~held THEN Refused("not found", "", rem)
        ELSE Answered("", [rem EXCEPT !.gates =
                            [n \in DOMAIN rem.gates |->
                                [rem.gates[n] EXCEPT !.Conditions =
                                    [i \in 1..Len(rem.gates[n].Conditions) |->
                                        Updated(rem.gates[n].Conditions[i])]]]])

\* what the remote generates itself when it serves the Create of cr: the id
\* of a new gate, or the id of a new condition and its operator when it is
\* given none
Generated(rem, cr) ==
    IF cr.kind = "QualityGate"
    THEN [gateId : RemoteGateIds \ rem.ids, condId : {""}, op : {""}]
    ELSE [gateId : {""}, condId : RemoteConditionIds \ rem.ids, op : RemoteOps]

\* the calls other than Create and CreateCondition leave nothing to the remote
NothingGenerated == [gateId |-> "", condId |-> "", op |-> ""]

Serve(rem, call, gen) ==
    CASE call.op = "Show"            -> ServeShow(rem, call.opt)
      [] call.op = "Create"          -> ServeCreate(rem, call.opt, gen.gateId)
      [] call.op = "Rename"          -> ServeRename(rem, call.opt)
      [] call.op = "SetAsDefault"    -> ServeSetAsDefault(rem, call.opt)
      [] call.op = "CreateCondition" -> ServeCreateCondition(rem, call.opt, gen.condId, gen.op)
      [] call.op = "UpdateCondition" -> ServeUpdateCondition(rem, call.opt)

----------------------------------------------------------------------------
(* Reconcile cycles.  Each resource is reconciled on its own, one step at  *)
(* a time: a condition's references are resolved, then Observe, then       *)
(* Create when the resource is reported absent or Update when it is        *)
(* reported not up to date; a step that returns an error ends the cycle    *)
(* and the next one starts over.  Steps of different resources interleave. *)

\* the answers an operation is given when the remote has answered nothing:
\* they stand for the calls the operation does not get to
Unanswered ==
    [op \in RemoteOperations |->
        [err |-> New("api error"),
         v   |-> CASE op = "Show"            -> ZeroShowObject
                   [] op = "Create"          -> [ID |-> "", Name |-> ""]
                   [] op = "CreateCondition" -> [ID |-> ""]
                   [] OTHER                  -> ""]]

\* step of the reconciler of cr's kind on cr, its calls answered by r
Operate(step, cr, r) ==
    IF cr.kind = "QualityGate"
    THEN CASE step = "Observe" -> GateObserve(cr, r["Show"])
           [] step = "Create"  -> GateCreate(cr, r["Create"], r["SetAsDefault"])
           [] step = "Update"  -> GateUpdate(cr, r["Rename"], r["SetAsDefault"])
    ELSE CASE step = "Observe" -> ConditionObserve(cr, r["Show"])
           [] step = "Create"  -> ConditionCreate(cr, r["CreateCondition"])
           [] step = "Update"  -> ConditionUpdate(cr, r["UpdateCondition"])

\* the name the operation goes by
Operation(step, cr) ==
    IF cr.kind = "QualityGate" THEN "qualitygate." \o step ELSE "qualitygatecondition." \o step

\* the element of a set of one
The(S) == CHOOSE x \in S : TRUE

\* [o, remote]: the step run against the remote, which answers the first
\* call the operation issues, then the second one from what it holds by then
\* (no operation issues more than two calls, nor the same one twice); o0, a1,
\* o1 and a2 are the operation before any answer, the first answer, the
\* operation given it, and the second answer
Against(step, cr, rem, gen) ==
    The({ IF Len(o0.calls) = 0 THEN [o |-> o0, remote |-> rem]
          ELSE The({ The({ IF Len(o1.calls) = 1 THEN [o |-> o1, remote |-> a1.remote]
                           ELSE The({ [o      |-> Operate(step, cr,
                                                    [Unanswered EXCEPT ![o0.calls[1].op] = a1.res,
                                                                       ![o1.calls[2].op] = a2.res]),
                                       remote |-> a2.remote]
                                      : a2 \in {Serve(a1.remote, o1.calls[2], gen)} })
                           : o1 \in {Operate(step, cr, [Unanswered EXCEPT ![o0.calls[1].op] = a1.res])} })
                     : a1 \in {Serve(rem, o0.calls[1], gen)} })
          : o0 \in {Operate(step, cr, Unanswered)} })

\* the first step of a reconcile of cr
Start(cr) == IF cr.kind = "QualityGateCondition" THEN "Resolve" ELSE "Observe"

\* what follows an Observe of cr
AfterObserve(cr, o) ==
    IF o.err # NoErr THEN Start(cr)
    ELSE IF ~o.out.ResourceExists THEN "Create"
    ELSE IF ~o.out.ResourceUpToDate THEN "Update"
    ELSE Start(cr)

Cycled(op, mg, d, next) ==
    /\ crs'    = [crs EXCEPT ![mg] = d.o.cr]
    /\ last'   = [op |-> op, mg |-> mg, calls |-> d.o.calls, out |-> d.o.out, err |-> d.o.err]
    /\ remote' = d.remote
    /\ todo'   = [todo EXCEPT ![mg] = next]
    /\ UNCHANGED <<eval, ctx>>

\* the steps of the reconcile of the resource mg
Resolves(mg) ==
    /\ todo[mg] = "Resolve"
    /\ \E o \in {ResolveReferences(crs[mg], crs)} :
            Cycled("ResolveReferences", mg, [o |-> o, remote |-> remote],
                   IF o.err # NoErr THEN "Resolve" ELSE "Observe")

Observes(mg) ==
    /\ todo[mg] = "Observe"
    /\ \E d \in {Against("Observe", crs[mg], remote, NothingGenerated)} :
            Cycled(Operation("Observe", crs[mg]), mg, d, AfterObserve(crs[mg], d.o))

Creates(mg) ==
    /\ todo[mg] = "Create"
    /\ \E gen \in Generated(remote, crs[mg]) :
            \E d \in {Against("Create", crs[mg], remote, gen)} :
            Cycled(Operation("Create", crs[mg]), mg, d, Start(crs[mg]))

Updates(mg) ==
    /\ todo[mg] = "Update"
    /\ \E d \in {Against("Update", crs[mg], remote, NothingGenerated)} :
            Cycled(Operation("Update", crs[mg]), mg, d, Start(crs[mg]))

StepResolve == \E mg \in DOMAIN crs : Resolves(mg)
StepObserve == \E mg \in DOMAIN crs : Observes(mg)
StepCreate  == \E mg \in DOMAIN crs : Creates(mg)
StepUpdate  == \E mg \in DOMAIN crs : Updates(mg)

\* a gate reconciled in cycles: not created yet, or one that took over the
\* remote gate its external name names
CycleGates(h, names, defaults) ==
    [kind : {"QualityGate"}, name : {h}, labels : {"team"},
     spec : [Name : names, Default : defaults],
     externalName : {""} \cup names,
     atProvider : {ZeroQualityGateObservation}, ready : {""}]

\* a condition reconciled in cycles: not created yet, or created as "c1"
CycleConditions ==
    [kind : {"QualityGateCondition"}, name : MetaNames,
     spec : [QualityGateName : Optional(Names), QualityGateRef : Optional(References),
             QualityGateSelector : Optional(Selectors),
             Error : {"80"}, Metric : {"coverage"}, Op : {Nil}],
     externalName : {"", "c1"},
     atProvider : {ZeroQualityGateConditionObservation}, ready : {""}]

\* the resources reconciled together: two gates of different names, or a
\* gate and a condition
CycleStores ==
    {[h \in GateHandles |-> IF h = "gate-a" THEN a ELSE b] :
        a \in CycleGates("gate-a", {"a"}, Optional(BOOLEAN)),
        b \in CycleGates("gate-b", {"b"}, Optional(BOOLEAN))}
    \cup
    {[h \in {"gate-a", MR} |-> IF h = MR THEN c ELSE a] :
        a \in CycleGates("gate-a", Names, {Nil}), c \in CycleConditions}

\* the remotes a store may face: the built-in gate, the gates taken over, any
\* other gate a condition may name; one default gate; the condition created
\* as "c1" on the gate it names, if that gate is there
CycleRemotes(store) ==
    LET gates    == {h \in DOMAIN store : store[h].kind = "QualityGate"}
        conds    == DOMAIN store \ gates
        adopted  == {store[h].externalName : h \in gates} \ {""}
        Attached(n) ==
            IF \E k \in conds : /\ store[k].externalName = "c1"
                                /\ store[k].spec.QualityGateName = Ptr(n)
            THEN <<[ID |-> "c1", Metric |-> "coverage", Error |-> "80", Op |-> "LT"]>>
            ELSE <<>>
    IN  {[gates |-> [n \in held |-> [IsDefault |-> n = default, Conditions |-> Attached(n)]],
          ids   |-> {store[k].externalName : k \in conds} \ {""}] :
            held \in {{BuiltIn} \cup adopted \cup more :
                        more \in IF conds = {} THEN {{}} ELSE SUBSET Names},
            default \in {BuiltIn} \cup adopted}

CycleInit ==
    /\ crs \in CycleStores
    /\ remote \in CycleRemotes(crs)
    /\ todo = [mg \in DOMAIN crs |-> Start(crs[mg])]
    /\ last = [op |-> "", mg |-> "gate-a", calls |-> <<>>, out |-> ZeroObservation, err |-> NoErr]
    /\ eval = NoEval
    /\ ctx = "live"

CycleNext ==
    \/ StepResolve
    \/ StepObserve
    \/ StepCreate
    \/ StepUpdate

CycleSpec == CycleInit /\ [][CycleNext]_vars

\* the next step of the reconcile of the resource under handle h
Reconciles(h) ==
    /\ h \in DOMAIN crs
    /\ (Resolves(h) \/ Observes(h) \/ Creates(h) \/ Updates(h))

\* every resource is reconciled again and again: its next step is taken
\* sooner or later, whatever the other resources do
FairCycleSpec ==
    CycleSpec /\ \A h \in GateHandles \cup {MR} : WF_vars(Reconciles(h))

----------------------------------------------------------------------------
(* Vocabulary of the properties.  In a state, last describes the operation *)
(* that led to it and crs[last.mg] is the resource as that operation left  *)
(* it.  In a step, crs[last'.mg] is the resource the operation was handed. *)

GateOp(op) == "qualitygate." \o op
CondOp(op) == "qualitygatecondition." \o op

\* the last operation was op of the reconciler of the resource's own kind
RanOn(op) ==
    \/ last.op = GateOp(op) /\ crs[last.mg].kind = "QualityGate"
    \/ last.op = CondOp(op) /\ crs[last.mg].kind = "QualityGateCondition"

RanGate(op) == last.op = GateOp(op) /\ crs[last.mg].kind = "QualityGate"
RanCond(op) == last.op = CondOp(op) /\ crs[last.mg].kind = "QualityGateCondition"

CallsOf(op) == {i \in 1..Len(last.calls) : last.calls[i].op = op}

\* the label Observe wraps a lookup error with
ShowLabel(cr) ==
    IF cr.kind = "QualityGate" THEN errShowQualityGate ELSE errShowQualityGateCondition

\* the specification Observe leaves: late initialization of the one it was handed
LateInitialized(before, observation) ==
    IF before.kind = "QualityGate"
    THEN Deref(LateInitializeQualityGate(Ptr(before.spec), Ptr(observation)))
    ELSE Deref(LateInitializeQualityGateCondition(Ptr(before.spec), Ptr(observation)))

\* the comparator of the resource's kind on its specification and status
UpToDate(cr) ==
    IF cr.kind = "QualityGate"
    THEN IsQualityGateUpToDate(Ptr(cr.spec), Ptr(cr.atProvider))
    ELSE IsQualityGateConditionUpToDate(Ptr(cr.spec), Ptr(cr.atProvider))

\* the optional field late initialization fills was unset
WasUnset(before) ==
    IF before.kind = "QualityGate" THEN IsNil(before.spec.Default) ELSE IsNil(before.spec.Op)

\* the error Update returns for a resource that has no external name
PreconditionError(cr) ==
    IF cr.kind = "QualityGate"
    THEN New("external name is not set for Quality Gate " \o cr.name)
    ELSE New("external name is not set for Quality Gate Condition " \o cr.name)

----------------------------------------------------------------------------
(* C1: after gate Create succeeds, the gate's external name is the Name    *)
(* the remote create returned (not the generated ID, not metadata.name).   *)
C1_CreateSetsExternalNameToReturnedName ==
    (RanGate("Create") /\ last.err = NoErr)
        => crs[last.mg].externalName = last.calls[1].ret.Name

(* C2: when gate Create's remote create succeeds and desired Default is    *)
(* true, exactly one SetAsDefault call follows the create call and names   *)
(* the gate by the name the remote create returned.                        *)
C2_CreateSetsDefaultByReturnedName ==
    (/\ RanGate("Create")
     /\ Len(last.calls) >= 1
     /\ last.calls[1].err = NoErr
     /\ crs[last.mg].spec.Default = Ptr(TRUE))
        => /\ CallsOf("SetAsDefault") = {2}
           /\ last.calls[2].opt.Name = last.calls[1].ret.Name

(* C3: gate Delete with a non-empty external name issues exactly one       *)
(* Destroy call, whose Name is the external name.                          *)
C3_DeleteDestroysByExternalName ==
    (RanGate("Delete") /\ crs[last.mg].externalName # "")
        => /\ Len(last.calls) = 1
           /\ last.calls[1].op = "Destroy"
           /\ last.calls[1].opt.Name = crs[last.mg].externalName

(* C4: Observe (either kind) of a resource whose external name is empty    *)
(* reports ResourceExists = false with no error, issues no remote call and *)
(* leaves specification, status and external name as they were.            *)
C4_ObserveEmptyExternalName ==
    [][(RanOn("Observe")' /\ crs[last'.mg].externalName = "")
        => /\ last'.out.ResourceExists = FALSE
           /\ last'.err = NoErr
           /\ last'.calls = <<>>
           /\ crs' = crs]_vars

C4_Witness ==
    /\ RanCond("Observe")
    /\ crs[last.mg].externalName = ""
    /\ last.out = ZeroObservation
    /\ last.calls = <<>>

C6_NotFoundIsAbsentWithoutError ==
    /\ (/\ RanGate("Observe")
        /\ crs[last.mg].externalName # ""
        /\ last.calls[1].err = New("not found"))
        => (~last.out.ResourceExists /\ last.err = NoErr)
    /\ (/\ RanCond("Observe")
        /\ crs[last.mg].externalName # ""
        /\ last.calls[1].err = NoErr
        /\ ~last.out.ResourceExists)
        => last.err = NoErr

(* C7: on a successful lookup Observe (either kind) reports                *)
(* ResourceExists = true, ResourceUpToDate = the comparator on the         *)
(* late-initialized specification and the fresh observation, and           *)
(* ResourceLateInitialized = true exactly when late initialization changed *)
(* the specification, which is exactly when Default (gate) or Op           *)
(* (condition) was unset before; a gate with Default unset and the desired *)
(* name, observed as the default gate, yields (true, true, true) and       *)
(* Default becomes true.                                                   *)
C7_ObserveFound ==
    [][(/\ RanOn("Observe")'
        /\ crs[last'.mg].externalName # ""
        /\ last'.err = NoErr)
        => LET before == crs[last'.mg]
               after  == crs'[last'.mg]
           IN  /\ last'.out.ResourceExists
               /\ after.spec = LateInitialized(before, after.atProvider)
               /\ last'.out.ResourceUpToDate = UpToDate(after)
               /\ last'.out.ResourceLateInitialized = (after.spec # before.spec)
               /\ last'.out.ResourceLateInitialized = WasUnset(before)
               /\ (/\ before.kind = "QualityGate"
                   /\ IsNil(before.spec.Default)
                   /\ after.atProvider.Name = before.spec.Name
                   /\ after.atProvider.IsDefault)
                   => /\ last'.out = [ResourceExists |-> TRUE, ResourceUpToDate |-> TRUE,
                                      ResourceLateInitialized |-> TRUE]
                      /\ after.spec.Default = Ptr(TRUE)]_vars

C7_Witness ==
    /\ RanGate("Observe")
    /\ last.err = NoErr
    /\ last.out = [ResourceExists |-> TRUE, ResourceUpToDate |-> TRUE,
                   ResourceLateInitialized |-> TRUE]
    /\ crs[last.mg].atProvider.IsDefault
    /\ crs[last.mg].spec.Default = Ptr(TRUE)

(* C8: Update (either kind) of a resource whose external name is empty     *)
(* returns the precondition error, issues no remote call and changes       *)
(* nothing.                                                                *)
C8_UpdateEmptyExternalName ==
    [][(RanOn("Update")' /\ crs[last'.mg].externalName = "")
        => /\ last'.err = PreconditionError(crs[last'.mg])
           /\ last'.calls = <<>>
           /\ crs' = crs]_vars

C8_Witness ==
    /\ RanGate("Update")
    /\ crs[last.mg].externalName = ""
    /\ last.err = New("external name is not set for Quality Gate a")
    /\ last.calls = <<>>

C10_UpdateRenameFails ==
    [][(/\ RanGate("Update")'
        /\ CallsOf("Rename")' # {}
        /\ last'.calls[1].err # NoErr)
        => /\ last'.err = <<errUpdateQualityGate>> \o last'.calls[1].err
           /\ crs'[last'.mg].externalName = crs[last'.mg].externalName
           /\ CallsOf("SetAsDefault")' = {}]_vars

C10_Witness ==
    /\ RanGate("Update")
    /\ Len(last.calls) = 1
    /\ last.calls[1].op = "Rename"
    /\ last.calls[1].err # NoErr
    /\ last.err = <<errUpdateQualityGate>> \o last.calls[1].err
    /\ crs[last.mg].spec.Default = Ptr(TRUE)
    /\ crs[last.mg].externalName = last.calls[1].opt.CurrentName

RenameFailed == \E i \in CallsOf("Rename") : last.calls[i].err # NoErr

C12_NeverUnsetsDefault ==
    [][LET before == crs[last'.mg]
           calls  == last'.calls
       IN  /\ \A i \in 1..Len(calls) : calls[i].op \in RemoteOperations
           /\ \A i \in CallsOf("SetAsDefault")' :
                /\ last'.op \in {GateOp("Create"), GateOp("Update")}
                /\ before.kind = "QualityGate"
                /\ before.spec.Default = Ptr(TRUE)
                /\ DOMAIN calls[i].opt = {"Name"}
           /\ (before.kind = "QualityGate" /\ before.spec.Default # Ptr(TRUE))
                => CallsOf("SetAsDefault")' = {}
           /\ \A i \in CallsOf("Create")' :
                calls[i].opt = [Name |-> before.spec.Name]]_vars

\* a gate created with Default = false: the create call and nothing else
C12_Witness ==
    /\ RanGate("Create")
    /\ crs[last.mg].spec.Default = Ptr(FALSE)
    /\ last.err = NoErr
    /\ Len(last.calls) = 1
    /\ last.calls[1].op = "Create"
    /\ last.calls[1].opt = [Name |-> crs[last.mg].spec.Name]

(* C13: when gate Create's remote create succeeds and the SetAsDefault call *)
(* that follows fails, Create returns that error wrapped with the default   *)
(* label (not the create label) and the external name set from the create   *)
(* result is kept.                                                          *)
C13_CreateDefaultFails ==
    (/\ RanGate("Create")
     /\ Len(last.calls) = 2
     /\ last.calls[1].err = NoErr
     /\ last.calls[2].err # NoErr)
        => /\ last.calls[2].op = "SetAsDefault"
           /\ last.err = <<errDefaultQualityGate>> \o last.calls[2].err
           /\ last.err[1] # errCreateQualityGate
           /\ crs[last.mg].externalName # ""
           /\ crs[last.mg].externalName \in {last.calls[1].ret.ID, last.calls[1].ret.Name}

C13_Witness ==
    /\ RanGate("Create")
    /\ Len(last.calls) = 2
    /\ last.calls[1].err = NoErr
    /\ last.calls[2].err = New("api error")
    /\ last.err = <<errDefaultQualityGate, "api error">>
    /\ crs[last.mg].externalName # ""

\* the label Create wraps an error of the remote create call with
CreateLabel(cr) ==
    IF cr.kind = "QualityGate" THEN errCreateQualityGate ELSE errCreateQualityGateCondition

(* C14: when the remote create call fails (Create for a gate,               *)
(* CreateCondition for a condition), Create returns the error wrapped with  *)
(* the create label, the external name stays as it was and no further call  *)
(* (for a gate: no SetAsDefault) is issued.                                 *)
C14_CreateFails ==
    [][(/\ RanOn("Create")'
        /\ Len(last'.calls) >= 1
        /\ last'.calls[1].err # NoErr)
        => /\ last'.calls[1].op \in {"Create", "CreateCondition"}
           /\ last'.err = <<CreateLabel(crs[last'.mg])>> \o last'.calls[1].err
           /\ crs'[last'.mg].externalName = crs[last'.mg].externalName
           /\ Len(last'.calls) = 1
           /\ CallsOf("SetAsDefault")' = {}]_vars

\* a never-created gate that wants to be the default one
C14_Witness ==
    /\ RanGate("Create")
    /\ crs[last.mg].spec.Default = Ptr(TRUE)
    /\ crs[last.mg].externalName = ""
    /\ Len(last.calls) = 1
    /\ last.calls[1].err # NoErr
    /\ last.err = <<errCreateQualityGate>> \o last.calls[1].err

(* C15: after condition Create succeeds, the condition's external name is  *)
(* the ID the remote create-condition call returned, and that one call      *)
(* carried the desired parent gate name, metric and error threshold, and    *)
(* the operator only when the desired operator is set (empty otherwise).    *)
C15_ConditionCreate ==
    [][(RanCond("Create")' /\ last'.err = NoErr)
        => LET before == crs[last'.mg]
               after  == crs'[last'.mg]
               calls  == last'.calls
           IN  /\ Len(calls) = 1
               /\ calls[1].op = "CreateCondition"
               /\ calls[1].err = NoErr
               /\ after.externalName = calls[1].ret.ID
               /\ calls[1].opt.GateName = Deref(before.spec.QualityGateName)
               /\ calls[1].opt.Metric = before.spec.Metric
               /\ calls[1].opt.Error = before.spec.Error
               /\ IsNil(before.spec.Op) => calls[1].opt.Op = ""
               /\ ~IsNil(before.spec.Op) => calls[1].opt.Op = Deref(before.spec.Op)]_vars

\* a condition without operator, created under a new id
C15_Witness ==
    /\ RanCond("Create")
    /\ last.err = NoErr
    /\ IsNil(crs[last.mg].spec.Op)
    /\ Len(last.calls) = 1
    /\ last.calls[1].opt.Op = ""
    /\ last.calls[1].opt.GateName = "b"
    /\ last.calls[1].ret.ID = "c2"
    /\ crs[last.mg].externalName = "c2"

(* C16: condition Update with a non-empty external name issues exactly one  *)
(* UpdateCondition call whose Id is the external name and whose metric,     *)
(* error threshold and operator are the desired ones (operator empty when   *)
(* unset); the call never carries the parent gate name, and the external    *)
(* name is the same after the Update, whether the call succeeds or fails.   *)
C16_ConditionUpdate ==
    [][(RanCond("Update")' /\ crs[last'.mg].externalName # "")
        => LET before == crs[last'.mg]
               after  == crs'[last'.mg]
               calls  == last'.calls
           IN  /\ Len(calls) = 1
               /\ calls[1].op = "UpdateCondition"
               /\ calls[1].opt.Id = before.externalName
               /\ calls[1].opt.Metric = before.spec.Metric
               /\ calls[1].opt.Error = before.spec.Error
               /\ calls[1].opt.Op = (IF IsNil(before.spec.Op) THEN "" ELSE Deref(before.spec.Op))
               /\ DOMAIN calls[1].opt = {"Id", "Metric", "Error", "Op"}
               /\ after.externalName = before.externalName
               /\ last'.err = Wrap(calls[1].err, errUpdateQualityGateCondition)]_vars

\* an Update that sends a set operator and fails
C16_Witness ==
    /\ RanCond("Update")
    /\ crs[last.mg].externalName = "c1"
    /\ crs[last.mg].spec.Op = Ptr("GT")
    /\ Len(last.calls) = 1
    /\ last.calls[1].opt = [Id |-> "c1", Metric |-> crs[last.mg].spec.Metric,
                            Error |-> crs[last.mg].spec.Error, Op |-> "GT"]
    /\ last.calls[1].err # NoErr
    /\ last.err # NoErr

(* C17: for both kinds, Delete of a resource whose external name is empty   *)
(* succeeds without any remote call, every time it is called: the external  *)
(* name stays empty and the specification is untouched.                     *)
C17_DeleteEmptyExternalName ==
    [][(RanOn("Delete")' /\ crs[last'.mg].externalName = "")
        => /\ last'.err = NoErr
           /\ last'.calls = <<>>
           /\ crs'[last'.mg].externalName = ""
           /\ crs'[last'.mg].spec = crs[last'.mg].spec]_vars

C17_Witness ==
    /\ RanCond("Delete")
    /\ crs[last.mg].externalName = ""
    /\ crs[last.mg].ready = "Deleting"
    /\ last.err = NoErr
    /\ last.calls = <<>>

\* the label Delete wraps an error of the remote delete call with
DeleteLabel(cr) ==
    IF cr.kind = "QualityGate" THEN errDeleteQualityGate ELSE errDeleteQualityGateCondition

\* the last operation was a Delete of the resource's own kind whose remote
\* call failed
DeleteFailed ==
    /\ RanOn("Delete")
    /\ Len(last.calls) = 1
    /\ last.calls[1].err # NoErr

(* C18: when the remote destroy / delete-condition call fails, Delete       *)
(* returns the error wrapped with the delete label and the external name is *)
(* unchanged; a Delete retried right after it issues its call with the same *)
(* option, that is, for the same remote entity.                             *)
C18_DeleteFails ==
    [][/\ DeleteFailed'
          => /\ last'.calls[1].op \in {"Destroy", "DeleteCondition"}
             /\ last'.err = <<DeleteLabel(crs[last'.mg])>> \o last'.calls[1].err
             /\ crs'[last'.mg].externalName = crs[last'.mg].externalName
             /\ crs'[last'.mg].externalName # ""
       /\ (DeleteFailed /\ RanOn("Delete")' /\ last'.mg = last.mg)
          => /\ Len(last'.calls) = 1
             /\ last'.calls[1].op = last.calls[1].op
             /\ last'.calls[1].opt = last.calls[1].opt]_vars

C18_Witness ==
    /\ RanCond("Delete")
    /\ crs[last.mg].externalName = "c2"
    /\ Len(last.calls) = 1
    /\ last.calls[1].opt = [Id |-> "c2"]
    /\ last.calls[1].err = New("api error")
    /\ last.err = <<errDeleteQualityGateCondition, "api error">>

\* the reconciler an operation belongs to, and its type-mismatch error
ReconcilerKind(op) ==
    IF op \in {GateOp(o) : o \in {"Observe", "Create", "Update", "Delete"}}
    THEN "QualityGate" ELSE "QualityGateCondition"

MismatchError(op) ==
    IF ReconcilerKind(op) = "QualityGate"
    THEN New(errNotQualityGate) ELSE New(errNotQualityGateCondition)

(* C19: Observe, Create, Update and Delete of either reconciler, handed a   *)
(* resource that is not of the reconciler's kind, return the reconciler's   *)
(* static type-mismatch error, issue no remote call and change nothing.     *)
C19_TypeMismatch ==
    [][(crs[last'.mg].kind # ReconcilerKind(last'.op))
        => /\ last'.err = MismatchError(last'.op)
           /\ last'.calls = <<>>
           /\ last'.out = ZeroObservation
           /\ crs' = crs]_vars

\* the condition reconciler's Delete handed a gate that has an external name
C19_Witness ==
    /\ last.op = CondOp("Delete")
    /\ crs[last.mg].kind = "QualityGate"
    /\ crs[last.mg].externalName # ""
    /\ last.err = New(errNotQualityGateCondition)
    /\ last.calls = <<>>

(* C20: IsQualityGateUpToDate(spec, obs) is true when spec is nil; false   *)
(* when spec is non-nil and obs is nil; otherwise true if and only if       *)
(* spec.Name equals obs.Name and (spec.Default is unset or its value equals *)
(* obs.IsDefault).  The result is thus a function of obs.Name and           *)
(* obs.IsDefault alone among the observed fields, and the call leaves both  *)
(* arguments as they were.                                                  *)
C20_IsQualityGateUpToDate ==
    [][(eval'.fn = "IsQualityGateUpToDate" /\ eval'.n = 1)
        => LET spec == eval.args[1]
               obs  == eval.args[2]
           IN  /\ eval'.args = eval.args
               /\ IsNil(spec) => eval'.ret = <<TRUE>>
               /\ (~IsNil(spec) /\ IsNil(obs)) => eval'.ret = <<FALSE>>
               /\ (~IsNil(spec) /\ ~IsNil(obs))
                    => eval'.ret = << /\ Deref(spec).Name = Deref(obs).Name
                                      /\ \/ Deref(spec).Default = Nil
                                         \/ Deref(spec).Default = Ptr(Deref(obs).IsDefault) >>]_vars

\* Default unset, the names equal, the observed gate is the default one and
\* differs from a never-observed gate in every other field: up to date
C20_Witness ==
    /\ eval.fn = "IsQualityGateUpToDate"
    /\ eval.n = 1
    /\ eval.ret = <<TRUE>>
    /\ eval.args[1] = Ptr([Name |-> "a", Default |-> Nil])
    /\ ~IsNil(eval.args[2])
    /\ Deref(eval.args[2]).Name = "a"
    /\ Deref(eval.args[2]).IsDefault
    /\ Deref(eval.args[2]).IsBuiltIn
    /\ Deref(eval.args[2]).Actions = AllActions
    /\ Deref(eval.args[2]).Conditions # NilSlice

(* C21: IsQualityGateConditionUpToDate(params, obs) is true when params is *)
(* nil; false when params is non-nil and obs is nil; otherwise true if and  *)
(* only if params.Error equals obs.Error, params.Metric equals obs.Metric   *)
(* and (params.Op is unset or its value equals obs.Op), by strict string    *)
(* equality.  The result is thus a function of these fields alone: the      *)
(* parent gate reference and the observed ID do not enter it.               *)
C21_IsQualityGateConditionUpToDate ==
    [][(eval'.fn = "IsQualityGateConditionUpToDate" /\ eval'.n = 1)
        => LET params == eval.args[1]
               obs    == eval.args[2]
           IN  /\ eval'.args = eval.args
               /\ IsNil(params) => eval'.ret = <<TRUE>>
               /\ (~IsNil(params) /\ IsNil(obs)) => eval'.ret = <<FALSE>>
               /\ (~IsNil(params) /\ ~IsNil(obs))
                    => eval'.ret = << /\ Deref(params).Error = Deref(obs).Error
                                      /\ Deref(params).Metric = Deref(obs).Metric
                                      /\ \/ Deref(params).Op = Nil
                                         \/ Deref(params).Op = Ptr(Deref(obs).Op) >>]_vars

\* desired {coverage, "80", LT} against observed {coverage, "85", LT}: not up
\* to date
C21_Witness ==
    /\ eval.fn = "IsQualityGateConditionUpToDate"
    /\ eval.n = 1
    /\ ~IsNil(eval.args[1])
    /\ ~IsNil(eval.args[2])
    /\ Deref(eval.args[1]).Metric = "coverage"
    /\ Deref(eval.args[1]).Error = "80"
    /\ Deref(eval.args[1]).Op = Ptr("LT")
    /\ Deref(eval.args[2]).Metric = "coverage"
    /\ Deref(eval.args[2]).Error = "85"
    /\ Deref(eval.args[2]).Op = "LT"
    /\ eval.ret = <<FALSE>>

\* the step is a call of the gate's / the condition's late initializer
LateInitializesGate      == eval'.fn = "LateInitializeQualityGate" /\ eval'.n = eval.n + 1
LateInitializesCondition == eval'.fn = "LateInitializeQualityGateCondition" /\ eval'.n = eval.n + 1

(* C22: late initialization never changes an already-set field: a gate      *)
(* specification with Default set, or a condition specification with Op     *)
(* set, has the same value there after LateInitialize with any observation  *)
(* (also one whose value differs), and the required fields (gate Name;      *)
(* condition Metric, Error and the three forms of the parent gate           *)
(* reference) are the same after any call.                                  *)
C22_LateInitializeKeepsSetFields ==
    [][/\ (LateInitializesGate /\ ~IsNil(eval.args[1]))
            => LET before == Deref(eval.args[1])
                   after  == Deref(eval'.args[1])
               IN  /\ ~IsNil(eval'.args[1])
                   /\ ~IsNil(before.Default) => after.Default = before.Default
                   /\ after.Name = before.Name
       /\ (LateInitializesCondition /\ ~IsNil(eval.args[1]))
            => LET before == Deref(eval.args[1])
                   after  == Deref(eval'.args[1])
               IN  /\ ~IsNil(eval'.args[1])
                   /\ ~IsNil(before.Op) => after.Op = before.Op
                   /\ after.Metric = before.Metric
                   /\ after.Error = before.Error
                   /\ after.QualityGateName = before.QualityGateName
                   /\ after.QualityGateRef = before.QualityGateRef
                   /\ after.QualityGateSelector = before.QualityGateSelector]_vars

\* Default = false kept against a gate observed as the default one
C22_Witness ==
    /\ eval.fn = "LateInitializeQualityGate"
    /\ eval.n = 1
    /\ ~IsNil(eval.args[1])
    /\ ~IsNil(eval.args[2])
    /\ Deref(eval.args[1]).Default = Ptr(FALSE)
    /\ Deref(eval.args[2]).IsDefault = TRUE

(* C23: LateInitialize is idempotent for both kinds: a second call with the *)
(* same observation leaves the specification as the first call left it.     *)
C23_LateInitializeIdempotent ==
    [][((LateInitializesGate \/ LateInitializesCondition) /\ eval.n >= 1)
        => eval'.args = eval.args]_vars

\* a condition whose operator was filled from the observation ("lt" is no
\* desired value), after the second call
C23_Witness ==
    /\ eval.fn = "LateInitializeQualityGateCondition"
    /\ eval.n = 2
    /\ ~IsNil(eval.args[1])
    /\ ~IsNil(eval.args[2])
    /\ Deref(eval.args[1]).Op = Ptr("lt")
    /\ Deref(eval.args[2]).Op = "lt"

(* C24: with both arguments present, LateInitialize sets an unset optional  *)
(* field to exactly the observed value (gate Default becomes the observed   *)
(* IsDefault, true or false; condition Op becomes the observed Op) and      *)
(* nothing else; with the specification or the observation absent it        *)
(* changes nothing.                                                         *)
C24_LateInitializeFillsUnset ==
    [][/\ LateInitializesGate
            => LET spec == eval.args[1]
                   obs  == eval.args[2]
               IN  /\ eval'.args[2] = obs
                   /\ (IsNil(spec) \/ IsNil(obs)) => eval'.args[1] = spec
                   /\ (~IsNil(spec) /\ ~IsNil(obs) /\ IsNil(Deref(spec).Default))
                        => eval'.args[1] =
                             Ptr([Name |-> Deref(spec).Name,
                                  Default |-> Ptr(Deref(obs).IsDefault)])
       /\ LateInitializesCondition
            => LET params == eval.args[1]
                   obs    == eval.args[2]
               IN  /\ eval'.args[2] = obs
                   /\ (IsNil(params) \/ IsNil(obs)) => eval'.args[1] = params
                   /\ (~IsNil(params) /\ ~IsNil(obs) /\ IsNil(Deref(params).Op))
                        => eval'.args[1] = Ptr([Deref(params) EXCEPT !.Op = Ptr(Deref(obs).Op)])]_vars

\* a condition's unset operator filled with the observed one ("lt" is no
\* desired value, so it can only have come from the observation)
C24_Witness ==
    /\ eval.fn = "LateInitializeQualityGateCondition"
    /\ eval.n = 1
    /\ ~IsNil(eval.args[1])
    /\ ~IsNil(eval.args[2])
    /\ Deref(eval.args[1]).Op = Ptr("lt")
    /\ Deref(eval.args[2]).Op = "lt"
    /\ Deref(eval.args[1]).QualityGateRef # Nil

(* C25: GenerateQualityGateConditionsObservation returns a list as long as *)
(* its input whose element at each position carries the ID, metric, error   *)
(* and operator of the input element at that position; an empty (or nil)    *)
(* input yields an empty list that is not nil.                              *)
C25_ConditionsObservation ==
    (eval.fn = "GenerateQualityGateConditionsObservation" /\ eval.n = 1)
        => LET input  == eval.args[1]
               output == eval.ret[1]
           IN  /\ ~output.isNil
               /\ Len(output.elems) = Len(input.elems)
               /\ \A i \in 1..Len(input.elems) :
                    output.elems[i] = [ID     |-> input.elems[i].ID,
                                       Metric |-> input.elems[i].Metric,
                                       Error  |-> input.elems[i].Error,
                                       Op     |-> input.elems[i].Op]
               /\ Len(input.elems) = 0 => output = MkSlice(<<>>)

\* two conditions, mapped in their order
C25_Witness ==
    /\ eval.fn = "GenerateQualityGateConditionsObservation"
    /\ eval.n = 1
    /\ Len(eval.args[1].elems) = 2
    /\ eval.args[1].elems[1].ID = "c2"
    /\ eval.args[1].elems[2].ID = "c1"
    /\ Len(eval.ret[1].elems) = 2
    /\ eval.ret[1].elems[1].ID = "c2"
    /\ eval.ret[1].elems[2].ID = "c1"

(* C26: FindQualityGateConditionObservation(id, list) returns, with no      *)
(* error, the mapping (all four fields unchanged) of the first element of   *)
(* list whose ID is id, and fails with the not-found error whenever no      *)
(* element has that ID, also when list is empty or nil.                     *)
C26_FindConditionObservation ==
    (eval.fn = "FindQualityGateConditionObservation" /\ eval.n = 1)
        => LET id    == eval.args[1]
               list  == eval.args[2].elems
               hits  == {i \in 1..Len(list) : list[i].ID = id}
               value == eval.ret[1]
               err   == eval.ret[2]
           IN  /\ hits = {} => /\ err = New(errConditionNotFound)
                               /\ value = ZeroQualityGateConditionObservation
               /\ hits # {} => /\ err = NoErr
                               /\ \E i \in hits :
                                    /\ \A j \in hits : i <= j
                                    /\ value = [ID     |-> list[i].ID,
                                                Metric |-> list[i].Metric,
                                                Error  |-> list[i].Error,
                                                Op     |-> list[i].Op]

\* two conditions carry the id looked for: the first one is returned
C26_Witness ==
    /\ eval.fn = "FindQualityGateConditionObservation"
    /\ eval.n = 1
    /\ eval.args[1] = "c1"
    /\ Len(eval.args[2].elems) = 2
    /\ eval.args[2].elems[1].ID = "c1"
    /\ eval.args[2].elems[2].ID = "c1"
    /\ eval.args[2].elems[1].Metric = "bugs"
    /\ eval.args[2].elems[2].Metric = "coverage"
    /\ eval.ret[2] = NoErr
    /\ eval.ret[1].Metric = "bugs"

\* the request a condition makes of the resolver: an unset parent name is
\* no current value
ResolutionRequest(cond) ==
    [CurrentValue |-> IF IsNil(cond.spec.QualityGateName) THEN ""
                      ELSE Deref(cond.spec.QualityGateName),
     Reference    |-> cond.spec.QualityGateRef,
     Selector     |-> cond.spec.QualityGateSelector]

\* the condition names its parent in at least one of the three ways
ParentGiven(cond) ==
    \/ ~IsNil(cond.spec.QualityGateName)
    \/ ~IsNil(cond.spec.QualityGateRef)
    \/ ~IsNil(cond.spec.QualityGateSelector)

(* C27: when reference resolution succeeds, ResolveReferences overwrites    *)
(* the condition's QualityGateName with the resolved parent external name   *)
(* and stores the reference used in QualityGateRef; when it fails (parent   *)
(* not found, ambiguous selector, parent without external name) it returns  *)
(* the error wrapped with the resolve label and leaves QualityGateName and  *)
(* QualityGateRef unchanged.                                                *)
C27_ResolveReferencesOutcome ==
    [][(last'.op = "ResolveReferences" /\ ParentGiven(crs[MR]))
        => LET before   == crs[MR]
               after    == crs'[MR]
               expected == Resolve(ResolutionRequest(before), crs)
           IN  /\ expected.err = NoErr
                    => /\ last'.err = NoErr
                       /\ after.spec.QualityGateName = Ptr(expected.v.ResolvedValue)
                       /\ after.spec.QualityGateRef = expected.v.ResolvedReference
               /\ expected.err # NoErr
                    => /\ last'.err = <<errResolveQualityGateRef>> \o expected.err
                       /\ after.spec.QualityGateName = before.spec.QualityGateName
                       /\ after.spec.QualityGateRef = before.spec.QualityGateRef]_vars

\* the gate a condition without parent name leads to, when it gives only a
\* reference or only a selector and exactly one gate answers to it
ParentsOf(cond, store) ==
    IF ~IsNil(cond.spec.QualityGateRef) /\ IsNil(cond.spec.QualityGateSelector)
    THEN {h \in GatesOf(store) : h = Deref(cond.spec.QualityGateRef).Name}
    ELSE IF IsNil(cond.spec.QualityGateRef) /\ ~IsNil(cond.spec.QualityGateSelector)
    THEN {h \in GatesOf(store) : store[h].labels = Deref(cond.spec.QualityGateSelector).MatchLabels}
    ELSE {}

(* C28: ResolveReferences accepts a condition whose QualityGateName is      *)
(* unset and whose parent is given only by a reference or only by a label   *)
(* selector: when exactly one gate answers to it and has an external name,  *)
(* the call succeeds and stores that external name as QualityGateName.      *)
C28_ResolvesUnsetName ==
    [][(/\ last'.op = "ResolveReferences"
        /\ IsNil(crs[MR].spec.QualityGateName)
        /\ Cardinality(ParentsOf(crs[MR], crs)) = 1
        /\ \A h \in ParentsOf(crs[MR], crs) : crs[h].externalName # "")
        => /\ last'.err = NoErr
           /\ \A h \in ParentsOf(crs[MR], crs) :
                crs'[MR].spec.QualityGateName = Ptr(crs[h].externalName)]_vars

(* C29: reference resolution is idempotent: ResolveReferences on a          *)
(* condition whose parent gate name is already resolved succeeds and leaves *)
(* QualityGateName and the stored reference (and the rest of the condition) *)
(* as they were, whatever the gates of the store are.                       *)
C29_ResolveReferencesIdempotent ==
    [][(last'.op = "ResolveReferences" /\ ~IsNil(crs[MR].spec.QualityGateName))
        => /\ last'.err = NoErr
           /\ crs'[MR].spec.QualityGateName = crs[MR].spec.QualityGateName
           /\ crs'[MR].spec.QualityGateRef = crs[MR].spec.QualityGateRef
           /\ crs' = crs]_vars

\* resolved name "a" and a reference to a gate whose external name is "b" by
\* now: nothing is resolved anew
C29_Witness ==
    /\ last.op = "ResolveReferences"
    /\ last.err = NoErr
    /\ Len(last.calls) = 1
    /\ crs[MR].spec.QualityGateName = Ptr("a")
    /\ crs[MR].spec.QualityGateRef = Ptr([Name |-> "gate-a"])
    /\ "gate-a" \in DOMAIN crs
    /\ crs["gate-a"].externalName = "b"

\* the step is an operation that wrote the external name as the code means
\* to: a Create whose remote create call succeeded, or a gate Update whose
\* Rename call succeeded
CreatedOrRenamed ==
    \/ /\ RanOn("Create")'
       /\ Len(last'.calls) >= 1
       /\ last'.calls[1].op \in {"Create", "CreateCondition"}
       /\ last'.calls[1].err = NoErr
    \/ /\ RanGate("Update")'
       /\ Len(last'.calls) >= 1
       /\ last'.calls[1].op = "Rename"
       /\ last'.calls[1].err = NoErr

(* C30: once a resource's external name is non-empty, no Observe, Update or *)
(* Delete (failed or successful, of either reconciler) makes it empty; the  *)
(* external name changes only in a Create whose remote create succeeded and *)
(* in a gate Update whose rename succeeded.                                 *)
C30_ExternalNameKept ==
    [][LET before == crs[last'.mg]
           after  == crs'[last'.mg]
       IN  /\ (/\ before.externalName # ""
               /\ last'.op \in {GateOp(o) : o \in {"Observe", "Update", "Delete"}}
                                \cup {CondOp(o) : o \in {"Observe", "Update", "Delete"}})
                => after.externalName # ""
           /\ after.externalName # before.externalName => CreatedOrRenamed
           /\ \A mg \in DOMAIN crs \ {last'.mg} : crs'[mg] = crs[mg]]_vars

\* a condition with an external name after a Delete that went through
C30_Witness ==
    /\ RanCond("Delete")
    /\ Len(last.calls) = 1
    /\ last.calls[1].err = NoErr
    /\ last.err = NoErr
    /\ crs[last.mg].externalName = "c1"

(* C32: the readiness condition becomes Available only in an Observe whose  *)
(* lookup succeeded (the Show call, and for a condition the search of the   *)
(* gate's conditions too); an Observe that reports the resource absent or   *)
(* returns an error leaves the readiness condition as it was; Create sets   *)
(* it to Creating and Delete sets it to Deleting.                           *)
C32_Readiness ==
    [][LET before == crs[last'.mg]
           after  == crs'[last'.mg]
       IN  /\ (RanOn("Observe")' /\ last'.out.ResourceExists) => after.ready = "Available"
           /\ (RanOn("Observe")' /\ (~last'.out.ResourceExists \/ last'.err # NoErr))
                => after.ready = before.ready
           /\ RanOn("Create")' => after.ready = "Creating"
           /\ RanOn("Delete")' => after.ready = "Deleting"
           /\ (after.ready = "Available" /\ before.ready # "Available")
                => /\ RanOn("Observe")'
                   /\ Len(last'.calls) = 1
                   /\ last'.calls[1].err = NoErr
                   /\ last'.err = NoErr
                   /\ last'.out.ResourceExists]_vars

\* a condition being created whose gate is shown without it: Observe fails
\* and the readiness condition is still Creating
C32_Witness ==
    /\ RanCond("Observe")
    /\ Len(last.calls) = 1
    /\ last.calls[1].err = NoErr
    /\ last.err = <<errShowQualityGateCondition, errConditionNotFound>>
    /\ crs[last.mg].ready = "Creating"

(* C39: condition Create on a condition whose QualityGateName is unset ends *)
(* with an ordinary error, not with a run-time panic, and issues no         *)
(* CreateCondition call.                                                    *)
C39_CreateWithoutParentName ==
    (RanCond("Create") /\ IsNil(crs[last.mg].spec.QualityGateName))
        => /\ last.err # NoErr
           /\ last.err # Panic
           /\ CallsOf("CreateCondition") = {}

\* the cause of the error an operation returns: the innermost message
Cause(err) == err[Len(err)]

\* context.Canceled
errCanceled == "context canceled"

(* C33: an operation (Observe, Create, Update or Delete) that is run with a *)
(* cancelled context and gets as far as a remote call returns an error      *)
(* whose cause is the cancellation, and leaves the specification and the    *)
(* external name as they were.                                              *)
C33_Cancellation ==
    [][(ctx = "cancelled" /\ ctx' = "cancelled" /\ last'.calls # <<>>)
        => /\ last'.err # NoErr
           /\ Cause(last'.err) = errCanceled
           /\ crs'[last'.mg].spec = crs[last'.mg].spec
           /\ crs'[last'.mg].externalName = crs[last'.mg].externalName]_vars

\* the three ways a condition names its parent gate
ParentFields == {"QualityGateName", "QualityGateRef", "QualityGateSelector"}

(* C31: once one of QualityGateName, QualityGateRef and QualityGateSelector *)
(* of a condition is set, no step changes its value: no resolution of the   *)
(* condition's references, no Observe, Create or Update of the condition,   *)
(* and no step of its parent gate, a rename among them.                     *)
C31_ParentReferenceImmutable ==
    [][\A mg \in DOMAIN crs :
            crs[mg].kind = "QualityGateCondition"
                => \A f \in ParentFields :
                        ~IsNil(crs[mg].spec[f]) => crs'[mg].spec[f] = crs[mg].spec[f]]_vars

\* the condition has been resolved again after its parent, which it names
\* "a" and refers to as gate-a, was renamed to "b" with its conditions
C31_Witness ==
    /\ last.op = "ResolveReferences"
    /\ last.err = NoErr
    /\ crs[MR].spec.QualityGateName = Ptr("a")
    /\ crs[MR].spec.QualityGateRef = Ptr([Name |-> "gate-a"])
    /\ crs[MR].externalName = "c1"
    /\ crs["gate-a"].externalName = "b"
    /\ "a" \notin DOMAIN remote.gates
    /\ Len(remote.gates["b"].Conditions) = 1

(* C34: the Observe of a gate that follows its successful Create, nothing   *)
(* else having happened on the remote, issues one Show call whose Name is   *)
(* the display name the remote created the gate under, and reports          *)
(* ResourceExists = true with no error.                                     *)
C34_ObserveAfterCreate ==
    [][(/\ last.op = GateOp("Create")
        /\ last.err = NoErr
        /\ last'.op = GateOp("Observe")
        /\ last'.mg = last.mg)
        => /\ Len(last'.calls) = 1
           /\ last'.calls[1].opt.Name = last.calls[1].ret.Name
           /\ last'.calls[1].opt.Name \in DOMAIN remote.gates
           /\ last'.out.ResourceExists
           /\ last'.err = NoErr]_vars

\* the gates of the remote that hold a condition of that id
HoldersOf(rem, id) ==
    {n \in DOMAIN rem.gates :
        \E i \in 1..Len(rem.gates[n].Conditions) : rem.gates[n].Conditions[i].ID = id}

(* C35: the Observe of a condition that was created on its parent gate G    *)
(* and is still held by G on the remote issues one Show call whose Name is  *)
(* G (not the condition's id), finds the condition by its external name     *)
(* and reports ResourceExists = true with no error.                         *)
C35_ObserveAfterConditionCreate ==
    [][(/\ last'.op = CondOp("Observe")
        /\ crs[last'.mg].kind = "QualityGateCondition"
        /\ crs[last'.mg].externalName # ""
        /\ ~IsNil(crs[last'.mg].spec.QualityGateName)
        /\ HoldersOf(remote, crs[last'.mg].externalName)
                = {Deref(crs[last'.mg].spec.QualityGateName)})
        => /\ Len(last'.calls) = 1
           /\ last'.calls[1].opt.Name = Deref(crs[last'.mg].spec.QualityGateName)
           /\ last'.out.ResourceExists
           /\ last'.err = NoErr
           /\ crs'[last'.mg].atProvider.ID = crs[last'.mg].externalName]_vars

\* the remote can take the resource as it is specified: it holds no gate of
\* the desired name yet, or it holds the gate the condition names
Satisfiable(cr, rem) ==
    IF cr.kind = "QualityGate"
    THEN cr.spec.Name \notin DOMAIN rem.gates
    ELSE /\ ~IsNil(cr.spec.QualityGateName)
         /\ Deref(cr.spec.QualityGateName) \in DOMAIN rem.gates

\* an Observe of the resource would report it present, up to date and not
\* late-initialized, and its reconcile is not about to create or update it
Converged(h) ==
    /\ h \in DOMAIN crs
    /\ todo[h] \notin {"Create", "Update"}
    /\ LET o == Against("Observe", crs[h], remote, NothingGenerated).o IN
            /\ o.err = NoErr
            /\ o.out = [ResourceExists |-> TRUE, ResourceUpToDate |-> TRUE,
                        ResourceLateInitialized |-> FALSE]

(* C36: a resource that starts without external name and with a            *)
(* specification the remote can take, reconciled in cycles that nothing     *)
(* disturbs, sooner or later reaches a state from which on every Observe    *)
(* reports it present, up to date and not late-initialized and no Create or *)
(* Update follows.                                                          *)
C36_Converges ==
    \A h \in GateHandles \cup {MR} :
        (/\ h \in DOMAIN crs
         /\ crs[h].externalName = ""
         /\ Satisfiable(crs[h], remote))
            => <>[]Converged(h)

\* one of the calls is a SetAsDefault
SetsDefault(calls) == \E i \in 1..Len(calls) : calls[i].op = "SetAsDefault"

\* the gate cr desires Default=false and its remote counterpart is the
\* default gate of rem
DefaultDenied(cr, rem) ==
    /\ cr.kind = "QualityGate"
    /\ cr.spec.Default = Ptr(FALSE)
    /\ cr.externalName \in DOMAIN rem.gates
    /\ rem.gates[cr.externalName].IsDefault

(* C37: for a gate that desires Default=false while its remote counterpart  *)
(* is the default gate, every Observe reports the gate present and not up   *)
(* to date and is followed by Update, no Update of it issues SetAsDefault   *)
(* and the counterpart is still the default gate afterwards, and this only  *)
(* ends in a step of another resource that makes another gate the default.  *)
C37_DefaultStaysDrifted ==
    [][\A h \in DOMAIN crs :
        DefaultDenied(crs[h], remote) =>
            /\ (last'.mg = h /\ last'.op = GateOp("Observe")) =>
                    /\ last'.err = NoErr
                    /\ last'.out.ResourceExists
                    /\ ~last'.out.ResourceUpToDate
                    /\ todo'[h] = "Update"
            /\ (last'.mg = h /\ last'.op = GateOp("Update")) =>
                    /\ ~SetsDefault(last'.calls)
                    /\ DefaultDenied(crs'[h], remote')
            /\ ~DefaultDenied(crs'[h], remote') =>
                    /\ last'.mg # h
                    /\ SetsDefault(last'.calls)
                    /\ last'.err = NoErr]_vars

C37_Witness ==
    /\ last.op = GateOp("Update")
    /\ last.err = NoErr
    /\ DefaultDenied(crs[last.mg], remote)
    /\ ~UpToDate(crs[last.mg])

\* the two gates both desire Default=true and each stands for a gate of rem
Rivals(store, rem) ==
    \A h \in GateHandles :
        /\ h \in DOMAIN store
        /\ store[h].spec.Default = Ptr(TRUE)
        /\ store[h].externalName \in DOMAIN rem.gates

\* the last step is an Update of the gate under h that asserted it as default
Reasserted(h) ==
    /\ last.mg = h
    /\ last.op = GateOp("Update")
    /\ last.err = NoErr
    /\ SetsDefault(last.calls)

\* an Observe of the gate under h would report it up to date as rem stands
ObservedUpToDate(h, store, rem) ==
    LET o == Against("Observe", store[h], rem, NothingGenerated).o IN
    o.err = NoErr /\ o.out.ResourceExists /\ o.out.ResourceUpToDate

====
